---- MODULE Spec2Model ----
(***************************************************************************)
(* State-machine model of the random-cracker solvers: the MT19937          *)
(* inverse-tempering solver, the V8 xorshift128+ incremental solver and    *)
(* the solver factory.                                                     *)
(*                                                                         *)
(* Machine words are modelled at their full width as the set of the        *)
(* positions of their 1 bits (bit 0 is the least significant): the 32-bit  *)
(* word 0x80000001 is {0, 31}.  XOR is the symmetric difference, AND the   *)
(* intersection, OR the union, and a shift moves the positions.            *)
(***************************************************************************)
EXTENDS Integers, Sequences, FiniteSets, TLC

(***************************************************************************)
(* Bit kernel                                                              *)
(***************************************************************************)
Xor(a, b) == (a \ b) \cup (b \ a)

And(a, m) == a \cap m

Or(a, b) == a \cup b

\* Python's a >> s
Shr(a, s) == {i - s : i \in {j \in a : j >= s}}

\* Python's a << s (unbounded; the callers mask the result)
Shl(a, s) == {i + s : i \in a}

RECURSIVE Pow2(_)
Pow2(n) == IF n = 0 THEN 1 ELSE 2 * Pow2(n - 1)

\* The word of a natural number below 2^16.
BitsOf(n) == {i \in 0..15 : (n \div Pow2(i)) % 2 = 1}

\* The 32-bit word 0xHHHHLLLL from its two 16-bit halves.
Word32(hi, lo) == Or(Shl(BitsOf(hi), 16), BitsOf(lo))

(***************************************************************************)
(* MT19937 kernel (mersenne_twister_cracker.py, mt19937_cracker.py)        *)
(***************************************************************************)
N == 624
M == 397
MATRIX_A == Word32(39176, 45279)   \* 0x9908B0DF
UPPER_MASK == {31}                 \* 0x80000000
LOWER_MASK == 0..30                \* 0x7FFFFFFF
UINT32_MASK == 0..31               \* 0xFFFFFFFF

TEMPERING_U == 11
TEMPERING_D == UINT32_MASK
TEMPERING_S == 7
TEMPERING_B == Word32(40236, 22144)   \* 0x9D2C5680
TEMPERING_T == 15
TEMPERING_C == Word32(61382, 0)       \* 0xEFC60000
TEMPERING_L == 18

\* The tempering without its last step, y ^ (y >> 18).
TemperWithoutL(y0) ==
    LET y1 == Xor(y0, And(Shr(y0, TEMPERING_U), TEMPERING_D))
        y2 == Xor(y1, And(Shl(y1, TEMPERING_S), TEMPERING_B))
        y3 == Xor(y2, And(Shl(y2, TEMPERING_T), TEMPERING_C))
    IN  And(y3, UINT32_MASK)

\* The four tempering steps of gen_rand_uint32, on a raw state word.
Temper(y0) ==
    LET y1 == Xor(y0, And(Shr(y0, TEMPERING_U), TEMPERING_D))
        y2 == Xor(y1, And(Shl(y1, TEMPERING_S), TEMPERING_B))
        y3 == Xor(y2, And(Shl(y2, TEMPERING_T), TEMPERING_C))
        y4 == Xor(y3, Shr(y3, TEMPERING_L))
    IN  And(y4, UINT32_MASK)

\* One step of the in-place loop of _twist, at index i.
TwistStep(mt, i) ==
    LET y == Or(And(mt[i], UPPER_MASK), And(mt[(i + 1) % N], LOWER_MASK))
        mag == IF 0 \in y THEN MATRIX_A ELSE {}
    IN  [mt EXCEPT ![i] = Xor(Xor(mt[(i + M) % N], Shr(y, 1)), mag)]

\* The loop of _twist over the indices lo..hi-1, in increasing order.  The
\* range is split in halves, and the first half is evaluated (the test on
\* its domain) before the second starts, to keep the evaluation depth
\* logarithmic in N.
RECURSIVE TwistRange(_, _, _)
TwistRange(mt, lo, hi) ==
    IF hi - lo = 1 THEN TwistStep(mt, lo)
    ELSE LET mid == (lo + hi) \div 2
             half == TwistRange(mt, lo, mid)
         IN  IF DOMAIN half = {} THEN half ELSE TwistRange(half, mid, hi)

\* _twist that computes every word from the words before the call.
TwistOutOfPlace(mt) == [i \in 0..(N - 1) |-> TwistStep(mt, i)[i]]

\* _twist: for i in range(N), in place.
Twist(mt) == TwistRange(mt, 0, N)

\* gen_rand_uint32 on a generator g = [mt, mti]: the generator after the
\* draw and the tempered word drawn.
GenRandUint32(g) ==
    LET tw  == g.mti >= N
        mt1 == IF tw THEN Twist(g.mt) ELSE g.mt
        i   == IF tw THEN 0 ELSE g.mti
    IN  [gen |-> [mt |-> mt1, mti |-> i + 1], out |-> Temper(mt1[i])]

\* _untemper_right_shift: res = y; repeat 32 // shift + 1 times
\* res = y ^ ((res >> shift) & mask).
RECURSIVE UntemperRightLoop(_, _, _, _, _)
UntemperRightLoop(y, res, shift, mask, n) ==
    IF n = 0 THEN res
    ELSE UntemperRightLoop(y, Xor(y, And(Shr(res, shift), mask)), shift, mask, n - 1)

UntemperRightShift(y, shift, mask) ==
    UntemperRightLoop(y, y, shift, mask, (32 \div shift) + 1)

\* _untemper_left_shift: the same with a left shift.
RECURSIVE UntemperLeftLoop(_, _, _, _, _)
UntemperLeftLoop(y, res, shift, mask, n) ==
    IF n = 0 THEN res
    ELSE UntemperLeftLoop(y, Xor(y, And(Shl(res, shift), mask)), shift, mask, n - 1)

UntemperLeftShift(y, shift, mask) ==
    UntemperLeftLoop(y, y, shift, mask, (32 \div shift) + 1)

\* _untemper without its last step, the inverse of y ^ ((y >> 11) & d).
UntemperWithoutU(y) ==
    LET a == UntemperRightShift(y, TEMPERING_L, UINT32_MASK)
        b == UntemperLeftShift(a, TEMPERING_T, TEMPERING_C)
    IN  UntemperLeftShift(b, TEMPERING_S, TEMPERING_B)

\* MT19937Cracker._untemper
Untemper(y) ==
    LET a == UntemperRightShift(y, TEMPERING_L, UINT32_MASK)
        b == UntemperLeftShift(a, TEMPERING_T, TEMPERING_C)
        c == UntemperLeftShift(b, TEMPERING_S, TEMPERING_B)
    IN  UntemperRightShift(c, TEMPERING_U, TEMPERING_D)

\* MersenneTwisterCracker._untemper of mt19937_cracker.py with the loops
\* run n7 and n11 times: y ^= y >> L; y ^= (y << T) & C; n7 times
\* y ^= (y << S) & B; n11 times y ^= y >> U; return y & 0xFFFFFFFF.
UntemperIterated(y, n7, n11) ==
    LET RECURSIVE Left(_, _)
        Left(w, n) == IF n = 0 THEN w
                      ELSE Left(Xor(w, And(Shl(w, TEMPERING_S), TEMPERING_B)), n - 1)
        RECURSIVE Right(_, _)
        Right(w, n) == IF n = 0 THEN w
                       ELSE Right(Xor(w, Shr(w, TEMPERING_U)), n - 1)
        a == Xor(y, Shr(y, TEMPERING_L))
        b == Xor(a, And(Shl(a, TEMPERING_T), TEMPERING_C))
    IN  And(Right(Left(b, n7), n11), UINT32_MASK)

\* The same with one pass less of the shift-7 loop.
UntemperFixedOnePassShort(y) == UntemperIterated(y, 6, 3)

\* MersenneTwisterCracker._untemper: for _ in range(7), for _ in range(3).
UntemperFixed(y) == UntemperIterated(y, 7, 3)

(***************************************************************************)
(* xorshift128+ kernel and the state-to-double converters (v8_cracker.py,  *)
(* v8_cracker_legacy.py).  A generator state is the pair <<s0, s1>> of     *)
(* 64-bit words.  A double in [0, 1) is modelled exactly, as the word of   *)
(* its numerator over 2^53 (bits 0..52): 0.5 is {52}.                      *)
(***************************************************************************)
UINT64_MASK == 0..63
CACHE_REFILL_SIZE == 64

\* XorShift128PlusUtil.next_state
next_state(s0, s1) ==
    LET s0_next == s1
        a == Xor(s0, And(Shl(s0, 23), UINT64_MASK))
        b == Xor(a, Shr(a, 17))
        c == Xor(b, s0_next)
        d == Xor(c, Shr(s0_next, 26))
    IN  <<s0_next, d>>

\* previous_state without the term temp >> 51.
previous_state_without_51(s0_next, s1_next) ==
    LET s1_prev == s0_next
        t1 == Xor(Xor(s1_next, s1_prev), Shr(s1_prev, 26))
        t2 == Xor(Xor(t1, Shr(t1, 17)), Shr(t1, 34))
        s0_prev == And(Xor(Xor(t2, Shl(t2, 23)), Shl(t2, 46)), UINT64_MASK)
    IN  <<s0_prev, s1_prev>>

\* XorShift128PlusUtil.previous_state
previous_state(s0_next, s1_next) ==
    LET s1_prev == s0_next
        t1 == Xor(Xor(s1_next, s1_prev), Shr(s1_prev, 26))
        t2 == Xor(Xor(Xor(t1, Shr(t1, 17)), Shr(t1, 34)), Shr(t1, 51))
        s0_prev == And(Xor(Xor(t2, Shl(t2, 23)), Shl(t2, 46)), UINT64_MASK)
    IN  <<s0_prev, s1_prev>>

\* a + 1 on words (ripple carry)
Inc(a) ==
    LET k == CHOOSE i \in 0..64 : i \notin a /\ \A j \in 0..(i - 1) : j \in a
    IN  {i \in a : i > k} \cup {k}

\* DivisionConverter
DivisionIgnoredLowerBits == 11

\* to_double: float(state >> 11) / 2^53
DivisionToDouble(s) == Shr(s, DivisionIgnoredLowerBits)

\* from_double: (int(value * 2^53) << 11) & UINT64_MASK
DivisionFromDouble(v) == And(Shl(v, DivisionIgnoredLowerBits), UINT64_MASK)

\* BinaryCastConverter
BinaryCastIgnoredLowerBits == 12

\* to_double: the double with fraction bits state >> 12 and the exponent of
\* 1.0, minus 1.0: the fraction f (52 bits) as f / 2^52 = 2f / 2^53.
BinaryCastToDouble(s) == Shl(Shr(s, BinaryCastIgnoredLowerBits), 1)

\* The 52 fraction bits and the exponent carry of the double value + 1.0:
\* the sum has 53 fraction bits and is rounded to 52, half to even.
PlusOneFraction(v) ==
    LET f == Shr(v, 1)
    IN  IF 0 \in v /\ 0 \in f THEN Inc(f) ELSE f

\* from_double: the bits of value + 1.0, shifted left by 12 and masked (the
\* exponent bits are shifted out; a sum rounded up to 2.0 has fraction 0).
BinaryCastFromDouble(v) ==
    LET f == PlusOneFraction(v)
        fraction == IF 52 \in f THEN {} ELSE f
    IN  And(Shl(fraction, BinaryCastIgnoredLowerBits), UINT64_MASK)

\* The converter of a solver class: V8Cracker.converter = DivisionConverter,
\* V8CrackerLegacy.converter = BinaryCastConverter.
get_ignored_lower_bits(k) ==
    IF k = "V8_LEGACY" THEN BinaryCastIgnoredLowerBits ELSE DivisionIgnoredLowerBits

\* to_double that takes the DivisionConverter for every solver class.
to_double_by_division(k, s) == DivisionToDouble(s)

to_double(k, s) ==
    IF k = "V8_LEGACY" THEN BinaryCastToDouble(s) ELSE DivisionToDouble(s)

from_double(k, v) ==
    IF k = "V8_LEGACY" THEN BinaryCastFromDouble(v) ELSE DivisionFromDouble(v)

(***************************************************************************)
(* The SMT solver as the V8 solver uses it (z3: BitVec, LShR, Solver).     *)
(*                                                                         *)
(* Every term the solver builds is a XOR of shifted copies of the two      *)
(* symbols, so each bit of a symbolic word is a GF(2)-affine form in       *)
(* unknown bits.  A symbolic word is modelled by its coefficient words:    *)
(* for each unknown the 64-bit word of the positions in which the unknown  *)
(* occurs, and one more word for the constant terms.  The bit-vector       *)
(* operations act on each coefficient word as they act on a value.         *)
(*                                                                         *)
(* The unknowns are named after the words they are bits of: unknown x in   *)
(* 0..63 is bit x of A0, the word s0 of the fresh symbolic pair, and       *)
(* unknown 64 + x is bit x of A1, the word s0 after one symbolic rotation. *)
(* The symbol s1 of the fresh pair is the second word of next_state(A1,    *)
(* A0): the change of unknowns from (s0, s1) to (A0, A1) is one to one.    *)
(* The bits of A0 and A1 that the first assertion on them fixes are        *)
(* constants, the others are the unknowns of the elimination.              *)
(***************************************************************************)
\* Symbolic rotations for which the coefficient words are tabulated.
MaxRot == 8

\* The fresh symbolic pair <<s0, s1>> for the words A0 = a0 and A1 = a1.
FreshPair(a0, a1) == <<a0, next_state(a1, a0)[2]>>

\* _rotate_symbolic_state without the term LShR(temp, 51).
rotate_symbolic_state_without_51(s0_sym, s1_sym) ==
    LET new_s1 == s0_sym
        t1 == Xor(s1_sym, Xor(new_s1, Shr(new_s1, 26)))
        t2 == Xor(t1, Xor(Shr(t1, 17), Shr(t1, 34)))
        t3 == Xor(t2, Xor(And(Shl(t2, 23), UINT64_MASK), And(Shl(t2, 46), UINT64_MASK)))
    IN  <<t3, new_s1>>

\* _rotate_symbolic_state on the pair <<s0_sym, s1_sym>>
rotate_symbolic_state(s0_sym, s1_sym) ==
    LET new_s1 == s0_sym
        t1 == Xor(s1_sym, Xor(new_s1, Shr(new_s1, 26)))
        t2 == Xor(t1, Xor(Xor(Shr(t1, 17), Shr(t1, 34)), Shr(t1, 51)))
        t3 == Xor(t2, Xor(And(Shl(t2, 23), UINT64_MASK), And(Shl(t2, 46), UINT64_MASK)))
    IN  <<t3, new_s1>>

\* The pairs after 0, 1, ..., n rotations of the pair p.
RECURSIVE SymPairs(_, _)
SymPairs(p, n) ==
    IF n = 0 THEN <<p>>
    ELSE <<p>> \o SymPairs(rotate_symbolic_state(p[1], p[2]), n - 1)

\* The pair after r rotations when A0 = a0 and A1 = a1.
SymPair(a0, a1, r) == SymPairs(FreshPair(a0, a1), r)[r + 1]

\* The coefficient words of the unknown x, after 0..MaxRot rotations.
UnitPairs(x) ==
    IF x < 64 THEN SymPairs(FreshPair({x}, {}), MaxRot)
    ELSE SymPairs(FreshPair({}, {x - 64}), MaxRot)

RECURSIVE UnitTableFrom(_, _)
UnitTableFrom(lo, hi) ==
    IF lo = hi THEN <<UnitPairs(lo)>>
    ELSE LET mid == (lo + hi) \div 2
             half == UnitTableFrom(lo, mid)
         IN  IF half = <<>> THEN half ELSE half \o UnitTableFrom(mid + 1, hi)

\* UnitTable[x + 1][r + 1][1]: where the unknown x occurs in s0_sym after r
\* rotations.
UnitTable == UnitTableFrom(0, 127)

\* An assertion LShR(s0_sym, shift) == known_bits, made when the symbolic
\* pair had been rotated rot times: [rot, shift, bits].
Assertion(r, sh, kb) == [rot |-> r, shift |-> sh, bits |-> kb]

\* The assertions of a solver (a sequence) on the word after r rotations.
AssertionsAt(solver, r) == {j \in 1..Len(solver) : solver[j].rot = r}

\* The first assertion on the word after r rotations.
FirstAt(solver, r) ==
    LET js == AssertionsAt(solver, r)
    IN  solver[CHOOSE j \in js : \A k \in js : j <= k]

\* The bits of the word after r rotations (r = 0, 1) that are fixed, and
\* the number of its low bits that are unknowns.
FixedWord(solver, r) ==
    IF AssertionsAt(solver, r) = {} THEN {}
    ELSE LET a == FirstAt(solver, r) IN And(Shl(a.bits, a.shift), UINT64_MASK)

FreeBits(solver, r) ==
    IF AssertionsAt(solver, r) = {} THEN 64 ELSE FirstAt(solver, r).shift

\* The unknowns of the elimination, in increasing order.
Unknowns(solver) ==
    LET n0 == FreeBits(solver, 0)
        n1 == FreeBits(solver, 1)
    IN  [k \in 1..(n0 + n1) |-> IF k <= n0 THEN k - 1 ELSE 64 + (k - n0 - 1)]

\* The equations are numbered 64 * (j - 1) + b for bit b of the j-th
\* assertion; the number AUG + x stands for the unknown x.
AUG == 4096

\* The equations in which the unknown x occurs, and the unknown itself.
VectorOf(solver, x) ==
    UNION {{64 * (j - 1) + b :
              b \in Shr(UnitTable[x + 1][solver[j].rot + 1][1], solver[j].shift)} :
           j \in 1..Len(solver)}
    \cup {AUG + x}

\* The equations that fail when every unknown is 0.
TargetOf(solver) ==
    LET maxrot == IF solver = <<>> THEN 0
                  ELSE CHOOSE r \in {solver[j].rot : j \in 1..Len(solver)} :
                          \A j \in 1..Len(solver) : solver[j].rot <= r
        ps == SymPairs(FreshPair(FixedWord(solver, 0), FixedWord(solver, 1)), maxrot)
    IN  UNION {{64 * (j - 1) + b :
                  b \in Xor(Shr(ps[solver[j].rot + 1][1], solver[j].shift), solver[j].bits)} :
               j \in 1..Len(solver)}

MinOf(S) == CHOOSE x \in S : \A y \in S : x <= y

\* Gaussian elimination over GF(2).  basis maps an equation to a vector in
\* which it is the least equation.
RECURSIVE ReduceVector(_, _)
ReduceVector(v, basis) ==
    IF v = {} THEN v
    ELSE IF MinOf(v) >= AUG THEN v
    ELSE IF MinOf(v) \in DOMAIN basis THEN ReduceVector(Xor(v, basis[MinOf(v)]), basis)
    ELSE v

AddVector(v, basis) ==
    LET red == ReduceVector(v, basis)
    IN  IF MinOf(red) >= AUG THEN basis ELSE (MinOf(red) :> red) @@ basis

RECURSIVE BasisOf(_, _, _, _, _)
BasisOf(solver, us, lo, hi, basis) ==
    IF lo > hi THEN basis
    ELSE IF lo = hi THEN AddVector(VectorOf(solver, us[lo]), basis)
    ELSE LET mid == (lo + hi) \div 2
             half == BasisOf(solver, us, lo, mid, basis)
         IN  IF DOMAIN half = {-1} THEN half ELSE BasisOf(solver, us, mid + 1, hi, half)

\* The echelon form of the assertions of a solver: the basis of the vectors
\* of the unknowns, and what is left of the failing equations.
Echelon(solver) ==
    LET us == Unknowns(solver)
        basis == BasisOf(solver, us, 1, Len(us), <<>>)
    IN  [basis |-> basis, rest |-> ReduceVector(TargetOf(solver), basis),
         free |-> Len(us) - Cardinality(DOMAIN basis)]

\* solver.check() == sat, answered exactly, for the echelon form e
IsSat(e) == e.rest = {} \/ MinOf(e.rest) >= AUG

\* len(solver.model()): the symbols s0, s1 that occur in the assertions.
ModelLen(solver) ==
    IF solver = <<>> THEN 0
    ELSE IF \A j \in 1..Len(solver) : solver[j].rot = 0 THEN 1
    ELSE 2

\* A model of a satisfiable solver, as the words <<A0, A1>>: the one that
\* the elimination yields.
ModelOf(solver, e) ==
    <<FixedWord(solver, 0) \cup {x \in 0..63 : (AUG + x) \in e.rest},
      FixedWord(solver, 1) \cup {x \in 0..63 : (AUG + 64 + x) \in e.rest}>>

\* The words <<a0, a1>> are a model of the solver.
IsModel(solver, a0, a1) ==
    LET ps == SymPairs(FreshPair(a0, a1), MaxRot)
    IN  \A j \in 1..Len(solver) :
            Shr(ps[solver[j].rot + 1][1], solver[j].shift) = solver[j].bits

(***************************************************************************)
(* State                                                                   *)
(***************************************************************************)
VARIABLES
    kind,       \* the solver class under test: "MT19937", "V8", "V8_LEGACY"
                \* or "V8_INT" ("none": no solver)
    multiplier, \* V8IntCracker._multiplier, as a word ({}: no V8IntCracker)
    arg,        \* the argument of a call of a stateless function: <<y>> or
                \* <<s0, s1>> (<<>>: no such call)
    lists,      \* the list objects that generators hold as self.mt, by identity
    gens,       \* two MersenneTwisterGenerator objects, the saved one and the
                \* restored one: [mt: a list's identity, mti] (<<>>: none)
    cli,        \* main(): [pc, stdin, predict, stdout, code] (pc "none": not
                \* run): where it is ("feed", "predict" or "exit"), the lines
                \* not yet read, args.predict, the lines printed and the exit
                \* code; a line is <<value, the engine's word behind it>>
    status,     \* self._status
    state,      \* MT19937Cracker._state: the untempered words, in arrival order
    random,     \* MT19937Cracker._random: <<>> for None, else <<[mt, mti]>>
    gen,        \* the observed MersenneTwisterGenerator: [mt, mti]
    s0_val,     \* V8Cracker._s0_val
    s1_val,     \* V8Cracker._s1_val
    cache_refill_counter, \* V8Cracker._cache_refill_counter
    observed_values,      \* V8Cracker._observed_values
    solver,     \* V8Cracker._solver: the sequence of its assertions
    sym_rot,    \* how often (_s0_sym, _s1_sym) was rotated since it was fresh
    eng,        \* the observed engine: [live, cache]
    truth,      \* for each buffered observation, the engine's word s0 behind it
    schedule,   \* the calls the observer makes once the V8 solver has solved
    registry,   \* the solver classes that exist, in the order of their creation
    rng_type,   \* RandomCracker.create: its argument, by name ("none": no call yet)
    classes_to_visit, \* RandomCracker.create: the list of that name
    created,    \* what the last call of create returned (a class) or raised
    pc,         \* RandomCracker.create: "idle", "loop" or "done"
    aligned,    \* TRUE once the V8 solver was SOLVED and aligned with the
                \* engine, while only predictions and true deliveries followed
    run,        \* TRUE once the V8 solver was SOLVED_BEFORE_CACHE_REFILL with
                \* the engine's next state, while only predictions followed
    op,         \* the last call: "none", "add_value" or "predict_next"
    raised,     \* what the last call raised: "none" or the error's class
    result,     \* what the last predict_next returned
    delivered,  \* the generator's output that the last call consumed
    calls,      \* number of add_value calls made so far (counted up to N + 1)
    solved_calls, \* number of calls made in a solved status
    others,     \* number of values fed that the generator did not deliver
    sync        \* TRUE while every value fed was the generator's next output

mtvars == <<state, random, gen, calls>>

v8vars == <<s0_val, s1_val, cache_refill_counter, observed_values, solver,
            sym_rot, eng, truth, schedule, aligned, run>>

factoryvars == <<registry, rng_type, classes_to_visit, created, pc>>

\* What only one part of the program uses.
extravars == <<multiplier, arg, lists, gens, cli>>

\* What no call on a solver changes.
setup == <<kind, factoryvars, extravars>>

\* What no step of create changes.
solvervars == <<kind, status, mtvars, v8vars, op, raised, result, delivered,
                solved_calls, others, sync, extravars>>

\* No V8IntCracker exists, no stateless function is called, no generator is
\* saved and main does not run.
ExtraIdle ==
    /\ multiplier = {} /\ arg = <<>> /\ lists = <<>> /\ gens = <<>>
    /\ cli = [pc |-> "none"]

vars == <<setup, status, mtvars, v8vars, op, raised, result, delivered,
          solved_calls, others, sync>>

SOLVING == "SOLVING"
SOLVED == "SOLVED"
NOT_SOLVABLE == "NOT_SOLVABLE"
SOLVED_BEFORE_CACHE_REFILL == "SOLVED_BEFORE_CACHE_REFILL"
CACHE_REFILLED_WHILE_SOLVING == "CACHE_REFILLED_WHILE_SOLVING"

NotEnoughDataError == "NotEnoughDataError"
NotSolvableError == "NotSolvableError"

(***************************************************************************)
(* RandomCracker.create and the solver classes (random_cracker.py)         *)
(***************************************************************************)
\* The members of the enumeration RngType.
RngType == {"V8", "V8_LEGACY", "MT19937"}

\* The modules that define solver classes, and for each the modules it
\* imports and the solver classes its execution creates, in order.  The
\* class body of V8IntCracker reads RngType.V8_INT, which does not exist:
\* the import of v8_cracker_int fails before the class is created.
Modules == {"mt19937_cracker", "v8_cracker", "v8_cracker_legacy", "v8_cracker_int"}

ImportsOf(m) == IF m \in {"v8_cracker_legacy", "v8_cracker_int"} THEN <<"v8_cracker">> ELSE <<>>

ClassesOf(m) ==
    CASE m = "mt19937_cracker" -> <<"MT19937Cracker">>
      [] m = "v8_cracker" -> <<"V8Cracker">>
      [] m = "v8_cracker_legacy" -> <<"V8CrackerLegacy">>
      [] OTHER -> <<>>

\* The base class of a solver class.
BaseOf(cls) == IF cls = "V8CrackerLegacy" THEN "V8Cracker" ELSE "RandomCracker"

\* getattr(cls, "rng_type"): V8CrackerLegacy sets no rng_type of its own and
\* inherits the one of V8Cracker.
RngTypeOf(cls) ==
    CASE cls = "MT19937Cracker" -> "MT19937"
      [] cls = "V8Cracker" -> "V8"
      [] cls = "V8CrackerLegacy" -> "V8"
      [] OTHER -> "none"

\* The converter of an instance of a solver class.
ConverterOf(cls) ==
    CASE cls = "V8Cracker" -> "DivisionConverter"
      [] cls = "V8CrackerLegacy" -> "BinaryCastConverter"
      [] OTHER -> "none"

\* cls.__subclasses__(): the classes with base cls, in creation order.
Subclasses(reg, cls) == SelectSeq(reg, LAMBDA c : BaseOf(c) = cls)

\* The registry after the classes cs are created, those that exist kept.
RECURSIVE Define(_, _)
Define(reg, cs) ==
    IF cs = <<>> THEN reg
    ELSE Define(IF \E i \in 1..Len(reg) : reg[i] = Head(cs) THEN reg
                ELSE Append(reg, Head(cs)), Tail(cs))

\* The registry after import m: the modules m imports first, then its own
\* classes.
Load(reg, m) ==
    LET deps == ImportsOf(m)
        r1 == IF deps = <<>> THEN reg ELSE Define(reg, ClassesOf(deps[1]))
    IN  Define(r1, ClassesOf(m))

\* import m, of a module whose import changes the classes that exist
ImportModule ==
    /\ kind = "none"
    /\ pc \in {"idle", "done"}
    /\ \E m \in Modules :
          /\ Load(registry, m) # registry
          /\ registry' = Load(registry, m)
    /\ UNCHANGED <<rng_type, classes_to_visit, created, pc, solvervars>>

\* The names a caller may ask create for.
RequestTags == {"V8", "V8_LEGACY", "V8_INT", "MT19937"}

\* RandomCracker.create(RngType.t): the caller's lookup of the member fails
\* for a name that RngType does not have; else the list is initialised.
CreateCall ==
    /\ kind = "none"
    /\ pc \in {"idle", "done"}
    /\ \E t \in RequestTags :
          /\ rng_type' = t
          /\ IF t \in RngType
             THEN /\ classes_to_visit' = Subclasses(registry, "RandomCracker")
                  /\ created' = "none"
                  /\ pc' = "loop"
             ELSE /\ classes_to_visit' = <<>>
                  /\ created' = "AttributeError"
                  /\ pc' = "done"
    /\ UNCHANGED <<registry, solvervars>>

\* One iteration of the loop: pop the last class, return an instance of it
\* or extend the list by its subclasses.
CreateVisit ==
    /\ kind = "none"
    /\ pc = "loop"
    /\ classes_to_visit # <<>>
    /\ LET cls == classes_to_visit[Len(classes_to_visit)]
           rest == SubSeq(classes_to_visit, 1, Len(classes_to_visit) - 1)
       IN  IF RngTypeOf(cls) = rng_type
           THEN /\ created' = cls
                /\ pc' = "done"
                /\ classes_to_visit' = rest
           ELSE /\ classes_to_visit' = rest \o Subclasses(registry, cls)
                /\ UNCHANGED <<created, pc>>
    /\ UNCHANGED <<registry, rng_type, solvervars>>

\* The list is empty: raise ValueError.
CreateRaise ==
    /\ kind = "none"
    /\ pc = "loop"
    /\ classes_to_visit = <<>>
    /\ created' = "ValueError"
    /\ pc' = "done"
    /\ UNCHANGED <<registry, rng_type, classes_to_visit, solvervars>>

\* The classes that exist when every module was imported in the order of
\* the package's __init__.
AllClasses == <<"MT19937Cracker", "V8Cracker", "V8CrackerLegacy">>

\* No call of create is under way.
FactoryIdle ==
    /\ registry = AllClasses
    /\ rng_type = "none"
    /\ classes_to_visit = <<>>
    /\ created = "none"
    /\ pc = "idle"

(***************************************************************************)
(* Bounds of the model                                                     *)
(***************************************************************************)
\* Calls made in a solved status, per behaviour.
MaxSolvedCalls == 626
\* Values fed that are not the generator's next output, per behaviour.
MaxOthers == 1
\* Number of non-zero state patterns the observed generator starts from.
NumPatterns == 1
\* While the solver is SOLVING, a value the generator did not deliver is fed
\* only among the first OtherWindow values.
OtherWindow == 1

(***************************************************************************)
(* The observed MT19937 generator                                          *)
(***************************************************************************)
\* Word j of the state vector of pattern p.  Pattern 0 is the all-zero
\* vector (the generator whose every output is 0); the others are fixed,
\* irregular bit patterns.
PatternWord(p, j) ==
    IF p = 0 THEN {}
    ELSE {b \in 0..31 : ((j + 3 * p) * (b + 5) + (j \div 7) * b + b * b) % 7 < 3}

\* MersenneTwisterGenerator.create(mt, mti)
Create(mt, mti) == [mt |-> mt, mti |-> mti]

\* The index positions the observed generator starts at.
StartIndexes == {0, N - M, N}

MTInitGens ==
    {Create([j \in 0..(N - 1) |-> PatternWord(0, j)], N)}
    \cup {Create([j \in 0..(N - 1) |-> PatternWord(p, j)], i) :
            p \in 1..NumPatterns, i \in StartIndexes}

\* Values an observer may feed that the generator did not deliver: the
\* word 1 (no generator of MTInitGens delivers it).
OtherValues32 == {{0}}

(***************************************************************************)
(* MT19937Cracker                                                          *)
(***************************************************************************)
\* _create_random(state): Random().setstate of the 625-tuple
CreateRandom(t) == [mt |-> [i \in 0..(N - 1) |-> t[i + 1]], mti |-> t[N + 1]]

\* _handle_solving that installs the state one value early.
MTHandleSolvingEarly(v) ==
    LET st == Append(state, Untemper(v))
    IN  /\ state' = st
        /\ IF Len(st) = N - 1
           THEN /\ random' = <<CreateRandom(st \o <<{}, N>>)>>
                /\ status' = SOLVED
           ELSE UNCHANGED <<random, status>>
        /\ raised' = "none"

\* _handle_solving
MTHandleSolving(v) ==
    LET st == Append(state, Untemper(v))
    IN  /\ state' = st
        /\ IF Len(st) = N
           THEN /\ random' = <<CreateRandom(st \o <<N>>)>>
                /\ status' = SOLVED
           ELSE UNCHANGED <<random, status>>
        /\ raised' = "none"

\* _handle_solved that compares without drawing from the generator.
MTHandleSolvedWithoutDraw(v) ==
    LET r == GenRandUint32(random[1])
    IN  /\ IF r.out # v
           THEN status' = NOT_SOLVABLE /\ raised' = NotSolvableError
           ELSE UNCHANGED status /\ raised' = "none"
        /\ UNCHANGED <<state, random>>

\* _handle_solved
MTHandleSolved(v) ==
    LET r == GenRandUint32(random[1])
    IN  /\ random' = <<r.gen>>
        /\ IF r.out # v
           THEN status' = NOT_SOLVABLE /\ raised' = NotSolvableError
           ELSE UNCHANGED status /\ raised' = "none"
        /\ UNCHANGED state

\* _handle_not_solvable
MTHandleNotSolvable(v) ==
    /\ raised' = NotSolvableError
    /\ UNCHANGED <<status, state, random>>

\* add_value(new_value): dispatch on the status
MTAddValue(v) ==
    /\ op' = "add_value"
    /\ calls' = IF calls <= N THEN calls + 1 ELSE calls
    /\ result' = {}
    /\ CASE status = SOLVING -> MTHandleSolving(v)
         [] status = SOLVED -> MTHandleSolved(v)
         [] OTHER -> MTHandleNotSolvable(v)

\* The observer draws the generator's next output and feeds it (a solver
\* that has failed is fed by MTFeedOther only: it ignores the value).
MTFeedNext ==
    /\ kind = "MT19937"
    /\ status # NOT_SOLVABLE
    /\ status = SOLVED => solved_calls < MaxSolvedCalls
    /\ LET d == GenRandUint32(gen)
       IN  /\ gen' = d.gen
           /\ delivered' = d.out
           /\ MTAddValue(d.out)
    /\ solved_calls' = IF status = SOLVED THEN solved_calls + 1 ELSE solved_calls
    /\ UNCHANGED <<setup, others, sync, v8vars>>

\* The observer feeds a value the generator did not deliver.
MTFeedOther ==
    /\ kind = "MT19937"
    /\ status # NOT_SOLVABLE => others < MaxOthers
    /\ status = SOLVING => Len(state) < OtherWindow
    /\ status = SOLVED => solved_calls < MaxSolvedCalls
    /\ \E v \in OtherValues32 :
          /\ delivered' = v
          /\ MTAddValue(v)
    /\ others' = IF others < MaxOthers THEN others + 1 ELSE others
    /\ sync' = FALSE
    /\ solved_calls' = IF status = SOLVED THEN solved_calls + 1 ELSE solved_calls
    /\ UNCHANGED <<setup, gen, v8vars>>

\* What predict_next raises in the status st ("none": it predicts).
MTPredictError(st) ==
    IF st = SOLVING THEN NotEnoughDataError
    ELSE IF st = NOT_SOLVABLE THEN NotSolvableError
    ELSE "none"

\* predict_next(); in SOLVED the generator delivers its next output too.
MTPredictNext ==
    /\ kind = "MT19937"
    /\ op' = "predict_next"
    /\ CASE MTPredictError(status) # "none" ->
              /\ raised' = MTPredictError(status)
              /\ result' = {}
              /\ UNCHANGED <<random, gen, delivered, solved_calls>>
         [] status = SOLVED ->
              /\ solved_calls < MaxSolvedCalls
              /\ LET r == GenRandUint32(random[1])
                     d == GenRandUint32(gen)
                 IN  /\ random' = <<r.gen>>
                     /\ result' = r.out
                     /\ gen' = d.gen
                     /\ delivered' = d.out
              /\ raised' = "none"
              /\ solved_calls' = solved_calls + 1
    /\ UNCHANGED <<setup, status, state, calls, others, sync, v8vars>>

MTInit ==
    /\ kind = "MT19937"
    /\ status = SOLVING
    /\ state = <<>>
    /\ random = <<>>
    /\ gen \in MTInitGens
    /\ op = "none"
    /\ raised = "none"
    /\ result = {}
    /\ delivered = {}
    /\ calls = 0
    /\ solved_calls = 0
    /\ others = 0
    /\ sync = TRUE
    /\ s0_val = {}
    /\ s1_val = {}
    /\ cache_refill_counter = 0
    /\ observed_values = <<>>
    /\ solver = <<>>
    /\ sym_rot = 0
    /\ eng = [live |-> <<{}, {}>>, cache |-> <<>>]
    /\ truth = <<>>
    /\ schedule = "none"
    /\ aligned = FALSE
    /\ run = FALSE
    /\ FactoryIdle
    /\ ExtraIdle

MTNext == MTFeedNext \/ MTFeedOther \/ MTPredictNext

(***************************************************************************)
(* The observed engine: the output cache of the specification.  When the   *)
(* cache is empty the engine generates CACHE_REFILL_SIZE successive states *)
(* from its live state; it delivers them last generated first.             *)
(***************************************************************************)
\* The n states that follow s, in generation order.
RECURSIVE Generate(_, _)
Generate(s, n) ==
    IF n = 0 THEN <<>>
    ELSE IF n = 1 THEN <<next_state(s[1], s[2])>>
    ELSE LET half == Generate(s, n \div 2)
         IN  IF half = <<>> THEN half
             ELSE half \o Generate(half[Len(half)], n - (n \div 2))

\* The n states that end with s, in generation order.
RECURSIVE Backward(_, _)
Backward(s, n) ==
    IF n = 0 THEN <<>>
    ELSE IF n = 1 THEN <<s>>
    ELSE LET half == Backward(s, n \div 2)
         IN  IF half = <<>> THEN half
             ELSE Backward(previous_state(half[1][1], half[1][2]), n - (n \div 2)) \o half

EngRefill(e) ==
    LET batch == Generate(e.live, CACHE_REFILL_SIZE)
    IN  [live |-> batch[CACHE_REFILL_SIZE], cache |-> batch]

\* One delivery: the engine after it and the state whose s0 is delivered.
EngDeliver(e) ==
    LET f == IF e.cache = <<>> THEN EngRefill(e) ELSE e
    IN  [eng |-> [live |-> f.live, cache |-> SubSeq(f.cache, 1, Len(f.cache) - 1)],
         st  |-> f.cache[Len(f.cache)]]

\* The state of the engine's next delivery.
EngNextState(e) == EngDeliver(e).st

\* The states the first delivery comes from: an irregular one, one whose
\* output is 0.0, and one that is followed by a delivery of 0.0.
GenericTop == <<Word32(22136, 4660) \cup Shl(Word32(39612, 57072), 32),
                Word32(51966, 47806) \cup Shl(Word32(4919, 61453), 32)>>
ZeroTop == <<{3}, GenericTop[2]>>
ZeroSecondTop == next_state(ZeroTop[1], ZeroTop[2])
TopStates == {GenericTop, ZeroTop, ZeroSecondTop}

\* For each of them, the batch that ends with it and the states after it.
BatchUpTo == [top \in TopStates |-> Backward(top, CACHE_REFILL_SIZE)]
BatchAfter == [top \in TopStates |-> Generate(top, CACHE_REFILL_SIZE - 1)]

\* The engine whose next delivery is the state top, the k-th pop of its
\* batch (k values of the batch are delivered already).
EngineAt(top, k) ==
    [live  |-> IF k = 0 THEN top ELSE BatchAfter[top][k],
     cache |-> SubSeq(BatchUpTo[top], k + 1, CACHE_REFILL_SIZE)]

\* The cache phases the observation starts at.
Phases == 0..(CACHE_REFILL_SIZE - 1)
\* The phases at which the legacy solver and the observations of the states
\* with output 0.0 start.
LegacyPhases == {0, CACHE_REFILL_SIZE - 3, CACHE_REFILL_SIZE - 2, CACHE_REFILL_SIZE - 1}
ZeroPhases == {0, CACHE_REFILL_SIZE - 1}

\* Values an observer may feed that the engine did not deliver: 0.5 (as its
\* numerator over 2^53).
OtherValues53 == {{52}}

V8Kinds == {"V8", "V8_LEGACY"}

\* The solver classes, engine states and phases the V8 behaviours start from.
V8Starts ==
    {<<"V8", GenericTop, k>> : k \in Phases}
    \cup {<<"V8_LEGACY", GenericTop, k>> : k \in LegacyPhases}
    \cup {<<knd, top, k>> : knd \in V8Kinds, top \in {ZeroTop, ZeroSecondTop}, k \in ZeroPhases}

\* What the observer calls once the solver has solved: add_value only,
\* predict_next only, the two in turn, or any of the two (and then values
\* the engine did not deliver as well).  It is "none" until then.
Schedules == {"add", "predict", "alternate", "any"}

\* The engine e is within RefillWindow deliveries of a refill, before it or
\* after it.
RefillWindow == 6
NearRefill(e) ==
    \/ Len(e.cache) <= RefillWindow
    \/ Len(e.cache) >= CACHE_REFILL_SIZE - RefillWindow

\* Calls made in a solved status of the V8 solver, per behaviour.
MaxV8SolvedCalls == 135
\* The same, for the observer that makes any call.
MaxAnyCalls == 5
\* Values fed to the V8 solver that the engine did not deliver, per behaviour.
MaxV8Others == 2
\* A value the engine did not deliver is fed to a solving V8 solver only
\* among its first V8OtherWindow observations, and to a solved one only
\* among the first V8OtherWindow calls of the observer that makes any call.
V8OtherWindow == 1

\* The observer may call add_value (predict_next) in a solved status.
MayAdd ==
    /\ solved_calls < MaxV8SolvedCalls
    /\ \/ schedule = "add"
       \/ schedule = "alternate" /\ op = "predict_next"
       \/ schedule = "any" /\ solved_calls < MaxAnyCalls

MayPredict ==
    /\ solved_calls < MaxV8SolvedCalls
    /\ \/ schedule = "predict"
       \/ schedule = "alternate" /\ op = "add_value"
       \/ schedule = "any" /\ solved_calls < MaxAnyCalls

\* The observer whose value makes the solver solved chooses what it calls
\* from then on: it feeds the deliveries of the engine e when a refill is
\* far, and makes any call when it has fed a value e did not deliver.
ChooseSchedule(before, after, synced, e) ==
    IF before \in {SOLVED, SOLVED_BEFORE_CACHE_REFILL} \/ after \notin {SOLVED, SOLVED_BEFORE_CACHE_REFILL}
    THEN UNCHANGED schedule
    ELSE IF ~synced THEN schedule' = "any"
    ELSE IF NearRefill(e) THEN schedule' \in Schedules
    ELSE schedule' = "add"

(***************************************************************************)
(* V8Cracker (V8CrackerLegacy differs by its converter only)               *)
(***************************************************************************)
\* A test of the solved statuses that leaves SOLVED_BEFORE_CACHE_REFILL out.
IsSolvedOnly(s) == s = SOLVED

IsSolved(s) == s \in {SOLVED, SOLVED_BEFORE_CACHE_REFILL}

\* _peek_next_prediction
peek_next_prediction(s0) == to_double(kind, s0)

\* _is_prediction_correct
is_prediction_correct(s0, new_value) == peek_next_prediction(s0) = new_value

\* _rotate_state
rotate_state(c) == previous_state(c[1], c[2])

\* _handle_cache_refill: 2 * CACHE_REFILL_SIZE steps of next_state
RECURSIVE Advance(_, _)
Advance(c, n) ==
    IF n = 0 THEN c
    ELSE IF n = 1 THEN next_state(c[1], c[2])
    ELSE LET half == Advance(c, n \div 2)
         IN  IF half = <<>> THEN half ELSE Advance(half, n - (n \div 2))

\* _handle_cache_refill that advances by one batch only.
handle_cache_refill_one_batch(c) == Advance(c, CACHE_REFILL_SIZE)

handle_cache_refill(c) == Advance(c, CACHE_REFILL_SIZE * 2)

\* _add_constraint on the solver sv whose symbolic pair was rotated rot times
add_constraint(sv, rot, new_val) ==
    LET shift == get_ignored_lower_bits(kind)
        known_bits == Shr(from_double(kind, new_val), shift)
    IN  [solver |-> Append(sv, Assertion(rot, shift, known_bits)), sym_rot |-> rot + 1]

\* The solver after add_constraint of each value of vals, from a reset one.
RECURSIVE Replay(_, _)
Replay(c, vals) ==
    IF vals = <<>> THEN c
    ELSE Replay(add_constraint(c.solver, c.sym_rot, Head(vals)), Tail(vals))

\* _pop_oldest_constraint that replays on the rotated symbols instead of
\* fresh ones.
pop_oldest_constraint_on_rotated_symbols(b) ==
    LET obs == IF b.obs = <<>> THEN <<>> ELSE Tail(b.obs)
        c == Replay([solver |-> <<>>, sym_rot |-> b.sym_rot], obs)
    IN  [solver |-> c.solver, sym_rot |-> c.sym_rot, obs |-> obs,
         truth |-> IF b.truth = <<>> THEN <<>> ELSE Tail(b.truth)]

\* _pop_oldest_constraint that drops the two oldest observations.
pop_two_oldest_constraints(b) ==
    LET obs == IF Len(b.obs) <= 2 THEN <<>> ELSE Tail(Tail(b.obs))
        c == Replay([solver |-> <<>>, sym_rot |-> 0], obs)
    IN  [solver |-> c.solver, sym_rot |-> c.sym_rot, obs |-> obs,
         truth |-> IF Len(b.truth) <= 2 THEN <<>> ELSE Tail(Tail(b.truth))]

\* _pop_oldest_constraint
pop_oldest_constraint(b) ==
    LET obs == IF b.obs = <<>> THEN <<>> ELSE Tail(b.obs)
        c == Replay([solver |-> <<>>, sym_rot |-> 0], obs)
    IN  [solver |-> c.solver, sym_rot |-> c.sym_rot, obs |-> obs,
         truth |-> IF b.truth = <<>> THEN <<>> ELSE Tail(b.truth)]

\* while self._solver.check() != sat: self._pop_oldest_constraint()
RECURSIVE PopUntilSat(_)
PopUntilSat(b) ==
    LET e == Echelon(b.solver)
    IN  IF IsSat(e) THEN [solver |-> b.solver, sym_rot |-> b.sym_rot, obs |-> b.obs,
                          truth |-> b.truth, echelon |-> e]
        ELSE PopUntilSat(pop_oldest_constraint(b))

\* The models solver.model() may return for the echelon form e: the one
\* of the elimination, and the words behind the two oldest observations
\* when they are a model.
Models(sv, e, tr) ==
    {ModelOf(sv, e)}
    \cup (IF Len(tr) >= 2 /\ IsModel(sv, tr[1], tr[2]) THEN {<<tr[1], tr[2]>>} ELSE {})

\* _update_state_from_model that evaluates the symbols of one rotation
\* earlier.
update_state_from_model_one_rotation_short(sv, e, rot, tr) ==
    IF ModelLen(sv) = 2
    THEN \E model \in Models(sv, e, tr) :
            LET p == SymPair(model[1], model[2], rot - 1)
            IN  /\ s0_val' = p[1]
                /\ s1_val' = p[2]
    ELSE UNCHANGED <<s0_val, s1_val>>

\* _update_state_from_model
update_state_from_model(sv, e, rot, tr) ==
    IF ModelLen(sv) = 2
    THEN \E model \in Models(sv, e, tr) :
            LET p == SymPair(model[1], model[2], rot)
            IN  /\ s0_val' = p[1]
                /\ s1_val' = p[2]
    ELSE UNCHANGED <<s0_val, s1_val>>

\* _handle_solving that drops the oldest observations when the check fails.
handle_solving_dropping(new_value, obs, tr) ==
    IF is_prediction_correct(s0_val, new_value)
    THEN LET c == rotate_state(<<s0_val, s1_val>>)
         IN  /\ s0_val' = c[1]
             /\ s1_val' = c[2]
             /\ status' = SOLVED_BEFORE_CACHE_REFILL
             /\ observed_values' = obs
             /\ truth' = tr
             /\ raised' = "none"
             /\ UNCHANGED <<solver, sym_rot, cache_refill_counter>>
    ELSE LET c == add_constraint(solver, sym_rot, new_value)
             e == Echelon(c.solver)
             b == PopUntilSat([solver |-> c.solver, sym_rot |-> c.sym_rot,
                               obs |-> obs, truth |-> tr])
         IN  /\ solver' = b.solver
             /\ sym_rot' = b.sym_rot
             /\ observed_values' = b.obs
             /\ truth' = b.truth
             /\ raised' = "none"
             /\ UNCHANGED cache_refill_counter
             /\ status' = IF IsSat(e) THEN status ELSE CACHE_REFILLED_WHILE_SOLVING
             /\ update_state_from_model(b.solver, b.echelon, b.sym_rot, b.truth)

\* _handle_solving
handle_solving(new_value, obs, tr) ==
    IF is_prediction_correct(s0_val, new_value)
    THEN LET c == rotate_state(<<s0_val, s1_val>>)
         IN  /\ s0_val' = c[1]
             /\ s1_val' = c[2]
             /\ status' = SOLVED_BEFORE_CACHE_REFILL
             /\ observed_values' = obs
             /\ truth' = tr
             /\ raised' = "none"
             /\ UNCHANGED <<solver, sym_rot, cache_refill_counter>>
    ELSE LET c == add_constraint(solver, sym_rot, new_value)
             e == Echelon(c.solver)
         IN  /\ solver' = c.solver
             /\ sym_rot' = c.sym_rot
             /\ observed_values' = obs
             /\ truth' = tr
             /\ raised' = "none"
             /\ UNCHANGED cache_refill_counter
             /\ IF ~IsSat(e)
                THEN /\ status' = CACHE_REFILLED_WHILE_SOLVING
                     /\ UNCHANGED <<s0_val, s1_val>>
                ELSE /\ UNCHANGED status
                     /\ update_state_from_model(c.solver, e, c.sym_rot, tr)

\* _handle_cache_refilled_while_solving that goes back to SOLVING once the
\* assertions are satisfiable again.
handle_cache_refilled_while_solving_resuming(new_value, obs, tr) ==
    IF is_prediction_correct(s0_val, new_value)
    THEN LET c == rotate_state(<<s0_val, s1_val>>)
         IN  /\ s0_val' = c[1]
             /\ s1_val' = c[2]
             /\ cache_refill_counter' = CACHE_REFILL_SIZE - Len(obs) + 1
             /\ status' = SOLVED
             /\ observed_values' = obs
             /\ truth' = tr
             /\ raised' = "none"
             /\ UNCHANGED <<solver, sym_rot>>
    ELSE LET c == add_constraint(solver, sym_rot, new_value)
             b == PopUntilSat([solver |-> c.solver, sym_rot |-> c.sym_rot,
                               obs |-> obs, truth |-> tr])
         IN  /\ solver' = b.solver
             /\ sym_rot' = b.sym_rot
             /\ observed_values' = b.obs
             /\ truth' = b.truth
             /\ raised' = "none"
             /\ status' = SOLVING
             /\ UNCHANGED cache_refill_counter
             /\ update_state_from_model(b.solver, b.echelon, b.sym_rot, b.truth)

\* _handle_cache_refilled_while_solving that counts the buffered observations
\* without the + 1.
handle_cache_refilled_while_solving_off_by_one(new_value, obs, tr) ==
    IF is_prediction_correct(s0_val, new_value)
    THEN LET c == rotate_state(<<s0_val, s1_val>>)
         IN  /\ s0_val' = c[1]
             /\ s1_val' = c[2]
             /\ cache_refill_counter' = CACHE_REFILL_SIZE - Len(obs)
             /\ status' = SOLVED
             /\ observed_values' = obs
             /\ truth' = tr
             /\ raised' = "none"
             /\ UNCHANGED <<solver, sym_rot>>
    ELSE LET c == add_constraint(solver, sym_rot, new_value)
             b == PopUntilSat([solver |-> c.solver, sym_rot |-> c.sym_rot,
                               obs |-> obs, truth |-> tr])
         IN  /\ solver' = b.solver
             /\ sym_rot' = b.sym_rot
             /\ observed_values' = b.obs
             /\ truth' = b.truth
             /\ raised' = "none"
             /\ UNCHANGED <<status, cache_refill_counter>>
             /\ update_state_from_model(b.solver, b.echelon, b.sym_rot, b.truth)

\* _handle_cache_refilled_while_solving
handle_cache_refilled_while_solving(new_value, obs, tr) ==
    IF is_prediction_correct(s0_val, new_value)
    THEN LET c == rotate_state(<<s0_val, s1_val>>)
         IN  /\ s0_val' = c[1]
             /\ s1_val' = c[2]
             /\ cache_refill_counter' = CACHE_REFILL_SIZE - Len(obs) + 1
             /\ status' = SOLVED
             /\ observed_values' = obs
             /\ truth' = tr
             /\ raised' = "none"
             /\ UNCHANGED <<solver, sym_rot>>
    ELSE LET c == add_constraint(solver, sym_rot, new_value)
             b == PopUntilSat([solver |-> c.solver, sym_rot |-> c.sym_rot,
                               obs |-> obs, truth |-> tr])
         IN  /\ solver' = b.solver
             /\ sym_rot' = b.sym_rot
             /\ observed_values' = b.obs
             /\ truth' = b.truth
             /\ raised' = "none"
             /\ UNCHANGED <<status, cache_refill_counter>>
             /\ update_state_from_model(b.solver, b.echelon, b.sym_rot, b.truth)

\* _handle_solved_before_cache_refill that does not check the candidate again
\* after the refill compensation.
handle_solved_before_cache_refill_unchecked(new_value, obs, tr) ==
    /\ observed_values' = obs
    /\ truth' = tr
    /\ raised' = "none"
    /\ UNCHANGED <<solver, sym_rot>>
    /\ IF is_prediction_correct(s0_val, new_value)
       THEN LET c == rotate_state(<<s0_val, s1_val>>)
            IN  /\ s0_val' = c[1]
                /\ s1_val' = c[2]
                /\ UNCHANGED <<status, cache_refill_counter>>
       ELSE LET c == rotate_state(handle_cache_refill(<<s0_val, s1_val>>))
            IN  /\ cache_refill_counter' = CACHE_REFILL_SIZE
                /\ status' = SOLVED
                /\ s0_val' = c[1]
                /\ s1_val' = c[2]

\* _handle_solved_before_cache_refill
handle_solved_before_cache_refill(new_value, obs, tr) ==
    /\ observed_values' = obs
    /\ truth' = tr
    /\ UNCHANGED <<solver, sym_rot>>
    /\ IF is_prediction_correct(s0_val, new_value)
       THEN LET c == rotate_state(<<s0_val, s1_val>>)
            IN  /\ s0_val' = c[1]
                /\ s1_val' = c[2]
                /\ raised' = "none"
                /\ UNCHANGED <<status, cache_refill_counter>>
       ELSE LET r == handle_cache_refill(<<s0_val, s1_val>>)
                c == rotate_state(r)
            IN  /\ cache_refill_counter' = CACHE_REFILL_SIZE
                /\ IF ~is_prediction_correct(r[1], new_value)
                   THEN /\ status' = NOT_SOLVABLE
                        /\ raised' = NotSolvableError
                        /\ s0_val' = r[1]
                        /\ s1_val' = r[2]
                   ELSE /\ status' = SOLVED
                        /\ raised' = "none"
                        /\ s0_val' = c[1]
                        /\ s1_val' = c[2]

\* The decrement that compensates one call late, when the counter is below 0.
CountDownLate(c, counter) ==
    IF counter - 1 < 0
    THEN [cand |-> handle_cache_refill(c), counter |-> CACHE_REFILL_SIZE]
    ELSE [cand |-> c, counter |-> counter - 1]

\* The decrement whose refill compensation leaves the counter one short.
CountDownShort(c, counter) ==
    IF counter - 1 = 0
    THEN [cand |-> handle_cache_refill(c), counter |-> CACHE_REFILL_SIZE - 1]
    ELSE [cand |-> c, counter |-> counter - 1]

\* The decrement of the refill counter that predict_next and _handle_solved
\* start with: the candidate and the counter after it.
CountDown(c, counter) ==
    IF counter - 1 = 0
    THEN [cand |-> handle_cache_refill(c), counter |-> CACHE_REFILL_SIZE]
    ELSE [cand |-> c, counter |-> counter - 1]

\* _handle_solved
handle_solved(new_value, obs, tr) ==
    LET d == CountDown(<<s0_val, s1_val>>, cache_refill_counter)
        c == rotate_state(d.cand)
    IN  /\ observed_values' = obs
        /\ truth' = tr
        /\ cache_refill_counter' = d.counter
        /\ UNCHANGED <<solver, sym_rot>>
        /\ IF is_prediction_correct(d.cand[1], new_value)
           THEN /\ s0_val' = c[1]
                /\ s1_val' = c[2]
                /\ raised' = "none"
                /\ UNCHANGED status
           ELSE /\ s0_val' = d.cand[1]
                /\ s1_val' = d.cand[2]
                /\ status' = NOT_SOLVABLE
                /\ raised' = NotSolvableError

\* _handle_not_solvable of an add_value that did not append the value.
handle_not_solvable_dropping_value(new_value, obs, tr) ==
    /\ raised' = NotSolvableError
    /\ UNCHANGED <<observed_values, truth>>
    /\ UNCHANGED <<status, s0_val, s1_val, cache_refill_counter, solver, sym_rot>>

\* _handle_not_solvable that raises nothing.
handle_not_solvable_silent(new_value, obs, tr) ==
    /\ observed_values' = obs
    /\ truth' = tr
    /\ raised' = "none"
    /\ UNCHANGED <<status, s0_val, s1_val, cache_refill_counter, solver, sym_rot>>

\* _handle_not_solvable
handle_not_solvable(new_value, obs, tr) ==
    /\ observed_values' = obs
    /\ truth' = tr
    /\ raised' = NotSolvableError
    /\ UNCHANGED <<status, s0_val, s1_val, cache_refill_counter, solver, sym_rot>>

\* add_value(new_value); w is the engine's word behind the value
V8AddValue(new_value, w) ==
    LET obs == Append(observed_values, new_value)
        tr  == Append(truth, w)
    IN  /\ op' = "add_value"
        /\ result' = {}
        /\ CASE status = SOLVING -> handle_solving(new_value, obs, tr)
             [] status = CACHE_REFILLED_WHILE_SOLVING ->
                    handle_cache_refilled_while_solving(new_value, obs, tr)
             [] status = SOLVED_BEFORE_CACHE_REFILL ->
                    handle_solved_before_cache_refill(new_value, obs, tr)
             [] status = SOLVED -> handle_solved(new_value, obs, tr)
             [] OTHER -> handle_not_solvable(new_value, obs, tr)

\* The candidate <<c0, c1>> is the state of the next delivery of the engine e.
CandidateAlignedWith(c0, c1, e) == <<c0, c1>> = EngNextState(e)

\* The status st is SOLVED, the refill counter cnt less 1 is the number of
\* values left in the batch of the engine e, and the candidate is the state
\* of its next delivery.
AlignedSolvedWith(st, c0, c1, cnt, e) ==
    /\ st = SOLVED
    /\ cnt - 1 = Len(e.cache)
    /\ CandidateAlignedWith(c0, c1, e)

\* The observer feeds the engine's next delivery.
V8FeedNext ==
    /\ kind \in V8Kinds
    /\ status # NOT_SOLVABLE
    /\ IsSolved(status) => MayAdd
    /\ LET d == EngDeliver(eng)
           v == to_double(kind, d.st[1])
       IN  /\ eng' = d.eng
           /\ delivered' = v
           /\ V8AddValue(v, d.st[1])
           /\ aligned' = (aligned \/ AlignedSolvedWith(status', s0_val', s1_val',
                                                     cache_refill_counter', d.eng))
           /\ run' = (/\ status' = SOLVED_BEFORE_CACHE_REFILL
                      /\ CandidateAlignedWith(s0_val', s1_val', d.eng))
    /\ solved_calls' = IF IsSolved(status) THEN solved_calls + 1 ELSE solved_calls
    /\ ChooseSchedule(status, status', sync, eng')
    /\ UNCHANGED <<setup, mtvars, others, sync>>

\* The observer feeds a value the engine did not deliver.
V8FeedOther ==
    /\ kind \in V8Kinds
    /\ others < MaxV8Others
    /\ status \in {SOLVING, CACHE_REFILLED_WHILE_SOLVING} =>
          Len(observed_values) < V8OtherWindow
    /\ IsSolved(status) => schedule = "any" /\ solved_calls < V8OtherWindow
    /\ \E v \in OtherValues53 :
          /\ delivered' = v
          /\ V8AddValue(v, from_double(kind, v))
    /\ others' = others + 1
    /\ sync' = FALSE
    /\ solved_calls' = IF IsSolved(status) THEN solved_calls + 1 ELSE solved_calls
    /\ aligned' = AlignedSolvedWith(status', s0_val', s1_val', cache_refill_counter', eng)
    /\ run' = (/\ status' = SOLVED_BEFORE_CACHE_REFILL
               /\ CandidateAlignedWith(s0_val', s1_val', eng))
    /\ ChooseSchedule(status, status', FALSE, eng)
    /\ UNCHANGED <<setup, mtvars, eng>>

\* predict_next that tells a failed solver it needs more data.
PredictErrorNotEnoughData(st) ==
    IF st \in {SOLVING, CACHE_REFILLED_WHILE_SOLVING, NOT_SOLVABLE} THEN NotEnoughDataError
    ELSE "none"

\* What predict_next raises in the status st ("none": it predicts).
PredictError(st) ==
    IF st \in {SOLVING, CACHE_REFILLED_WHILE_SOLVING} THEN NotEnoughDataError
    ELSE IF st = NOT_SOLVABLE THEN NotSolvableError
    ELSE "none"

\* predict_next(); in a solved status the engine delivers its next value too.
V8PredictNext ==
    /\ kind \in V8Kinds
    /\ op' = "predict_next"
    /\ CASE PredictError(status) # "none" ->
              /\ raised' = PredictError(status)
              /\ result' = {}
              /\ UNCHANGED <<s0_val, s1_val, cache_refill_counter, eng, delivered,
                             solved_calls, aligned, run>>
         [] status = SOLVED_BEFORE_CACHE_REFILL ->
              /\ MayPredict
              /\ LET c == rotate_state(<<s0_val, s1_val>>)
                     d == EngDeliver(eng)
                 IN  /\ result' = peek_next_prediction(s0_val)
                     /\ s0_val' = c[1]
                     /\ s1_val' = c[2]
                     /\ eng' = d.eng
                     /\ delivered' = to_double(kind, d.st[1])
              /\ raised' = "none"
              /\ solved_calls' = solved_calls + 1
              /\ UNCHANGED <<cache_refill_counter, run, aligned>>
         [] status = SOLVED ->
              /\ MayPredict
              /\ LET n == CountDown(<<s0_val, s1_val>>, cache_refill_counter)
                     c == rotate_state(n.cand)
                     d == EngDeliver(eng)
                 IN  /\ cache_refill_counter' = n.counter
                     /\ result' = peek_next_prediction(n.cand[1])
                     /\ s0_val' = c[1]
                     /\ s1_val' = c[2]
                     /\ eng' = d.eng
                     /\ delivered' = to_double(kind, d.st[1])
                     /\ aligned' = (aligned \/ AlignedSolvedWith(status, c[1], c[2],
                                                               n.counter, d.eng))
              /\ raised' = "none"
              /\ solved_calls' = solved_calls + 1
              /\ UNCHANGED run
    /\ UNCHANGED <<setup, status, mtvars, observed_values, solver, sym_rot, truth,
                   schedule, others, sync>>

V8Init ==
    /\ status = SOLVING
    /\ s0_val = {}
    /\ s1_val = {}
    /\ cache_refill_counter = 0
    /\ observed_values = <<>>
    /\ solver = <<>>
    /\ sym_rot = 0
    /\ \E st \in V8Starts :
          /\ kind = st[1]
          /\ eng = EngineAt(st[2], st[3])
    /\ truth = <<>>
    /\ schedule = "none"
    /\ aligned = FALSE
    /\ run = FALSE
    /\ op = "none"
    /\ raised = "none"
    /\ result = {}
    /\ delivered = {}
    /\ solved_calls = 0
    /\ others = 0
    /\ sync = TRUE
    /\ state = <<>>
    /\ random = <<>>
    /\ gen = Create(<<>>, 0)
    /\ calls = 0
    /\ FactoryIdle
    /\ ExtraIdle

V8Next == V8FeedNext \/ V8FeedOther \/ V8PredictNext

SpecV8 == V8Init /\ [][V8Next]_vars


SpecMT == MTInit /\ [][MTNext]_vars

(***************************************************************************)
(* V8IntCracker (v8_cracker_int.py): the class as its body and __init__    *)
(* define it.  A double is the numerator x of x / 2^53; an integer         *)
(* observation n is held on the same scale, as the numerator of n.         *)
(***************************************************************************)
\* Integer observations per behaviour, and calls made in a solved status.
MaxIntObservations == 4
MaxIntSolvedCalls == 3

\* The multipliers of V8IntCracker(multiplier): 2, 2^8 and 2^32.
Multipliers == {{1}, {8}, {32}}

\* The integers an observer feeds: 0, 1 and 2^31.
IntValues == {{}, {0}, {31}}

\* The Python number n (an int) as == compares it with a float.
IntAsDouble(n) == Shl(n, 53)

\* V8IntCracker._add_constraint: self.converter.from_value(new_val) is
\* V8IntConverter.from_value, whose super().from_value(...) finds no such
\* attribute on DivisionConverter; the call raises before solver.add.
IntAddConstraint(obs, tr) ==
    /\ observed_values' = obs
    /\ truth' = tr
    /\ raised' = "AttributeError"
    /\ UNCHANGED <<status, s0_val, s1_val, cache_refill_counter, solver, sym_rot>>

\* V8IntCracker.add_value(n): add_value and the handlers of V8Cracker, with
\* _peek_next_prediction = self.converter.to_double (V8IntConverter inherits
\* it from DivisionConverter) and the _add_constraint of V8IntCracker.
IntAddValue ==
    /\ kind = "V8_INT"
    /\ Len(observed_values) < MaxIntObservations
    /\ \E n \in IntValues :
          LET new_value == IntAsDouble(n)
          IN  /\ delivered' = n
              /\ IF /\ status \in {SOLVING, CACHE_REFILLED_WHILE_SOLVING}
                    /\ ~is_prediction_correct(s0_val, new_value)
                 THEN /\ op' = "add_value"
                      /\ result' = {}
                      /\ IntAddConstraint(Append(observed_values, new_value),
                                          Append(truth, {}))
                 ELSE V8AddValue(new_value, {})
    /\ solved_calls' = IF IsSolved(status) THEN solved_calls + 1 ELSE solved_calls
    /\ UNCHANGED <<setup, mtvars, eng, schedule, aligned, run, others, sync>>

\* V8IntCracker.predict_next(): predict_next of V8Cracker
IntPredictNext ==
    /\ kind = "V8_INT"
    /\ op' = "predict_next"
    /\ IsSolved(status) => solved_calls < MaxIntSolvedCalls
    /\ CASE PredictError(status) # "none" ->
              /\ raised' = PredictError(status)
              /\ result' = {}
              /\ UNCHANGED <<s0_val, s1_val, cache_refill_counter, solved_calls>>
         [] status = SOLVED_BEFORE_CACHE_REFILL ->
              LET c == rotate_state(<<s0_val, s1_val>>)
              IN  /\ result' = peek_next_prediction(s0_val)
                  /\ s0_val' = c[1]
                  /\ s1_val' = c[2]
                  /\ raised' = "none"
                  /\ solved_calls' = solved_calls + 1
                  /\ UNCHANGED cache_refill_counter
         [] status = SOLVED ->
              LET n == CountDown(<<s0_val, s1_val>>, cache_refill_counter)
                  c == rotate_state(n.cand)
              IN  /\ cache_refill_counter' = n.counter
                  /\ result' = peek_next_prediction(n.cand[1])
                  /\ s0_val' = c[1]
                  /\ s1_val' = c[2]
                  /\ raised' = "none"
                  /\ solved_calls' = solved_calls + 1
    /\ UNCHANGED <<setup, status, mtvars, observed_values, solver, sym_rot, truth,
                   eng, schedule, aligned, run, delivered, others, sync>>

\* V8IntCracker(multiplier): V8Cracker.__init__ and the multiplier
IntInit ==
    /\ kind = "V8_INT"
    /\ multiplier \in Multipliers
    /\ status = SOLVING
    /\ s0_val = {}
    /\ s1_val = {}
    /\ cache_refill_counter = 0
    /\ observed_values = <<>>
    /\ solver = <<>>
    /\ sym_rot = 0
    /\ eng = [live |-> <<{}, {}>>, cache |-> <<>>]
    /\ truth = <<>>
    /\ schedule = "none"
    /\ aligned = FALSE
    /\ run = FALSE
    /\ op = "none"
    /\ raised = "none"
    /\ result = {}
    /\ delivered = {}
    /\ solved_calls = 0
    /\ others = 0
    /\ sync = TRUE
    /\ state = <<>>
    /\ random = <<>>
    /\ gen = Create(<<>>, 0)
    /\ calls = 0
    /\ FactoryIdle
    /\ arg = <<>>
    /\ lists = <<>>
    /\ gens = <<>>
    /\ cli = [pc |-> "none"]

IntNext == IntAddValue \/ IntPredictNext

SpecInt == IntInit /\ [][IntNext]_vars

(***************************************************************************)
(* The factory on its own: modules are imported in any order and create is *)
(* called for any name, any number of times.                               *)
(***************************************************************************)
CreateInit ==
    /\ kind = "none"
    /\ status = SOLVING
    /\ state = <<>>
    /\ random = <<>>
    /\ gen = Create(<<>>, 0)
    /\ calls = 0
    /\ s0_val = {}
    /\ s1_val = {}
    /\ cache_refill_counter = 0
    /\ observed_values = <<>>
    /\ solver = <<>>
    /\ sym_rot = 0
    /\ eng = [live |-> <<{}, {}>>, cache |-> <<>>]
    /\ truth = <<>>
    /\ schedule = "none"
    /\ aligned = FALSE
    /\ run = FALSE
    /\ op = "none"
    /\ raised = "none"
    /\ result = {}
    /\ delivered = {}
    /\ solved_calls = 0
    /\ others = 0
    /\ sync = TRUE
    /\ registry = <<>>
    /\ rng_type = "none"
    /\ classes_to_visit = <<>>
    /\ created = "none"
    /\ pc = "idle"
    /\ ExtraIdle

CreateNext == ImportModule \/ CreateCall \/ CreateVisit \/ CreateRaise

SpecCreate == CreateInit /\ [][CreateNext]_vars

(***************************************************************************)
(* The stateless functions on their own: the tempering and its inverse,    *)
(* the xorshift128+ step and its inverse, the two converters.              *)
(***************************************************************************)
\* The arguments: for the words, no bit, each bit, each pair of bits, all
\* bits but one and each run of low bits; for the states, the pairs of
\* words with at most one bit each and the states of the observed engines.
KernelArgs ==
    LET Units(n) == {{}} \cup {{i} : i \in 0..(n - 1)}
        Words(n) == {{i, j} : i, j \in 0..(n - 1)}
                        \cup {(0..(n - 1)) \ {i} : i \in 0..(n - 1)}
                        \cup {0..i : i \in 0..(n - 1)}
    IN  {<<y>> : y \in Units(64) \cup Words(32) \cup Words(64)}
            \cup {<<s0, s1>> : s0 \in Units(64), s1 \in Units(64)}
            \cup {<<top[1], top[2]>> : top \in TopStates}

\* temper(untemper(y)) and untemper(temper(y)) of a 32-bit word y
ApplyTempering ==
    /\ op = "none"
    /\ Len(arg) = 1
    /\ arg[1] \subseteq UINT32_MASK
    /\ op' = "tempering"
    /\ result' = <<Temper(Untemper(arg[1])), Untemper(Temper(arg[1]))>>
    /\ UNCHANGED <<setup, status, mtvars, v8vars, raised, delivered, solved_calls,
                   others, sync>>

\* The two _untemper of mt19937_cracker.py on a 32-bit word y: that of
\* MersenneTwisterCracker and that of MT19937Cracker.
ApplyUntemper ==
    /\ op = "none"
    /\ Len(arg) = 1
    /\ arg[1] \subseteq UINT32_MASK
    /\ op' = "untemper"
    /\ result' = <<UntemperFixed(arg[1]), Untemper(arg[1])>>
    /\ UNCHANGED <<setup, status, mtvars, v8vars, raised, delivered, solved_calls,
                   others, sync>>

\* previous_state(next_state(s0, s1))
ApplyXorShift ==
    /\ op = "none"
    /\ Len(arg) = 2
    /\ op' = "xorshift"
    /\ LET n == next_state(arg[1], arg[2])
       IN  result' = previous_state(n[1], n[2])
    /\ UNCHANGED <<setup, status, mtvars, v8vars, raised, delivered, solved_calls,
                   others, sync>>

\* _rotate_symbolic_state on a pair of constant words
ApplySymbolicRotation ==
    /\ op = "none"
    /\ Len(arg) = 2
    /\ op' = "rotate_symbolic_state"
    /\ result' = rotate_symbolic_state(arg[1], arg[2])
    /\ UNCHANGED <<setup, status, mtvars, v8vars, raised, delivered, solved_calls,
                   others, sync>>

\* C.from_double(C.to_double(s)), C.to_double(s) and C.to_double of s with its
\* ignored bits cleared, for the converter C of a solver class
ApplyConverter ==
    /\ op = "none"
    /\ Len(arg) = 1
    /\ \E k \in V8Kinds :
          LET s == arg[1]
              high == s \ (0..(get_ignored_lower_bits(k) - 1))
          IN  /\ op' = ConverterOf(IF k = "V8" THEN "V8Cracker" ELSE "V8CrackerLegacy")
              /\ result' = <<from_double(k, to_double(k, s)), to_double(k, s),
                             to_double(k, high)>>
    /\ UNCHANGED <<setup, status, mtvars, v8vars, raised, delivered, solved_calls,
                   others, sync>>

KernelInit ==
    /\ kind = "none"
    /\ arg \in KernelArgs
    /\ multiplier = {}
    /\ lists = <<>>
    /\ gens = <<>>
    /\ cli = [pc |-> "none"]
    /\ status = SOLVING
    /\ state = <<>>
    /\ random = <<>>
    /\ gen = Create(<<>>, 0)
    /\ calls = 0
    /\ s0_val = {}
    /\ s1_val = {}
    /\ cache_refill_counter = 0
    /\ observed_values = <<>>
    /\ solver = <<>>
    /\ sym_rot = 0
    /\ eng = [live |-> <<{}, {}>>, cache |-> <<>>]
    /\ truth = <<>>
    /\ schedule = "none"
    /\ aligned = FALSE
    /\ run = FALSE
    /\ op = "none"
    /\ raised = "none"
    /\ result = {}
    /\ delivered = {}
    /\ solved_calls = 0
    /\ others = 0
    /\ sync = TRUE
    /\ FactoryIdle

KernelNext ==
    \/ ApplyTempering
    \/ ApplyUntemper
    \/ ApplyXorShift
    \/ ApplySymbolicRotation
    \/ ApplyConverter

SpecKernel == KernelInit /\ [][KernelNext]_vars

(***************************************************************************)
(* MersenneTwisterGenerator.getstate / setstate: a generator is saved and  *)
(* its state is restored in a generator that was seeded differently.  Here *)
(* calls counts the draws made by one generator alone, solved_calls the    *)
(* draws made by both, and sync is TRUE while the two generators have made *)
(* the same draws since the last setstate.                                 *)
(***************************************************************************)
\* Draws per behaviour: by one generator alone, and by both.
MaxSingleDraws == 2
MaxPairedDraws == 2

RANDOM_SHIFT_A == 5
RANDOM_SHIFT_B == 6

\* random() that takes the low part of the float from the first word drawn.
RandomLowPartFirst(y1, y2) ==
    Or(Shl(Shr(y2, RANDOM_SHIFT_A), 26), Shr(y1, RANDOM_SHIFT_B))

\* random() on the two words y1, y2 that gen_rand_uint32() returned:
\* (a * RANDOM_MULTIPLIER + b) * (1.0 / RANDOM_DIVISOR), as the numerator of
\* the float over 2^53.  The product and the sum are below 2^53 and exact in
\* a double, and so is the scaling by a power of two.
Random(y1, y2) ==
    LET a == Shr(y1, RANDOM_SHIFT_A)
        b == Shr(y2, RANDOM_SHIFT_B)
        RECURSIVE Sum(_, _)
        Sum(x, c) == IF c = {} THEN x ELSE Sum(Xor(x, c), Shl(And(x, c), 1))
    IN  Sum(Shl(a, 26), b)

\* gen_rand_uint32() of the generator object gs[i], on the lists ls: the
\* lists and objects after the call (_twist assigns to the items of self.mt)
\* and the output.
GenDraw(ls, gs, i) ==
    LET r == GenRandUint32([mt |-> ls[gs[i].mt], mti |-> gs[i].mti])
    IN  [lists |-> [ls EXCEPT ![gs[i].mt] = r.gen.mt],
         gens |-> [gs EXCEPT ![i].mti = r.gen.mti],
         out |-> r.out]

\* gen_rand_bits that keeps the low bits of the most significant word.
gen_rand_bits_masking_top_word(g, k) ==
    IF k <= 0 THEN [gen |-> g, out |-> {}]
    ELSE IF k <= 32
    THEN LET r == GenRandUint32(g)
         IN  [gen |-> r.gen, out |-> Shr(r.out, 32 - k)]
    ELSE LET num_words == (k + 31) \div 32
             RECURSIVE Loop(_, _, _)
             Loop(i, h, res) ==
                 IF i = num_words THEN [gen |-> h, out |-> res]
                 ELSE LET r == GenRandUint32(h)
                          bits_in_this_word == k - i * 32
                          rand_word == IF bits_in_this_word < 32
                                       THEN And(r.out, 0..(bits_in_this_word - 1))
                                       ELSE r.out
                      IN  Loop(i + 1, r.gen, Or(res, Shl(rand_word, i * 32)))
         IN  Loop(0, g, {})

\* gen_rand_bits(k) on a generator g = [mt, mti]: the generator after the
\* call and the integer returned.
gen_rand_bits(g, k) ==
    IF k <= 0 THEN [gen |-> g, out |-> {}]
    ELSE IF k <= 32
    THEN LET r == GenRandUint32(g)
         IN  [gen |-> r.gen, out |-> Shr(r.out, 32 - k)]
    ELSE LET num_words == (k + 31) \div 32
             RECURSIVE Loop(_, _, _)
             Loop(i, h, res) ==
                 IF i = num_words THEN [gen |-> h, out |-> res]
                 ELSE LET r == GenRandUint32(h)
                          bits_in_this_word == k - i * 32
                          rand_word == IF bits_in_this_word < 32
                                       THEN Shr(r.out, 32 - bits_in_this_word)
                                       ELSE r.out
                      IN  Loop(i + 1, r.gen, Or(res, Shl(rand_word, i * 32)))
         IN  Loop(0, g, {})

\* The numbers of bits asked for.
BitCounts == {-1, 0, 1, 31, 32, 33, 63, 64, 65}

\* setstate that keeps the list of the saved generator itself.
GenSaveRestoreShared ==
    /\ gens # <<>>
    /\ op' = "setstate"
    /\ gens' = [gens EXCEPT ![2] = gens[1]]
    /\ sync' = TRUE
    /\ UNCHANGED <<lists, kind, factoryvars, multiplier, arg, cli, status, mtvars, v8vars,
                   raised, result, delivered, solved_calls, others>>

\* restored.setstate(original.getstate()): getstate returns
\* (tuple(self.mt), self.mti), setstate installs list(mt_tuple), a new list
\* (it gets the identity 2, of the list that the restored generator drops).
GenSaveRestore ==
    /\ gens # <<>>
    /\ op' = "setstate"
    /\ lists' = [lists EXCEPT ![2] = lists[gens[1].mt]]
    /\ gens' = [gens EXCEPT ![2] = [mt |-> 2, mti |-> gens[1].mti]]
    /\ sync' = TRUE
    /\ UNCHANGED <<kind, factoryvars, multiplier, arg, cli, status, mtvars, v8vars,
                   raised, result, delivered, solved_calls, others>>

\* gen_rand_uint32() of one of the two generators
GenDrawOne ==
    /\ gens # <<>>
    /\ calls < MaxSingleDraws
    /\ \E i \in 1..2 :
          LET d == GenDraw(lists, gens, i)
          IN  /\ lists' = d.lists
              /\ gens' = d.gens
              /\ delivered' = d.out
    /\ op' = "gen_rand_uint32"
    /\ calls' = calls + 1
    /\ sync' = FALSE
    /\ UNCHANGED <<kind, factoryvars, multiplier, arg, cli, status, state, random, gen,
                   v8vars, raised, result, solved_calls, others>>

\* gen_rand_bits(k) of the saved generator
GenRandBits ==
    /\ gens # <<>>
    /\ calls < MaxSingleDraws
    /\ \E k \in BitCounts :
          LET r == gen_rand_bits([mt |-> lists[gens[1].mt], mti |-> gens[1].mti], k)
          IN  /\ lists' = [lists EXCEPT ![gens[1].mt] = r.gen.mt]
              /\ gens' = [gens EXCEPT ![1].mti = r.gen.mti]
              /\ result' = r.out
              /\ arg' = <<k>>
    /\ op' = "gen_rand_bits"
    /\ calls' = calls + 1
    /\ sync' = FALSE
    /\ UNCHANGED <<kind, factoryvars, multiplier, cli, status, state, random, gen,
                   v8vars, raised, delivered, solved_calls, others>>

\* The same call on both generators, gen_rand_uint32() or random(): the
\* output of the saved generator and the output of the restored one.
\* random() is (a * 2^26 + b) / 2^53 of two draws, a = y >> 5, b = y >> 6.
GenDrawBoth ==
    /\ gens # <<>>
    /\ solved_calls < MaxPairedDraws
    /\ \E fn \in {"gen_rand_uint32", "random"} :
          LET Call(ls, gs, i) ==
                  LET d1 == GenDraw(ls, gs, i)
                      d2 == GenDraw(d1.lists, d1.gens, i)
                  IN  IF fn = "gen_rand_uint32" THEN d1
                      ELSE [d2 EXCEPT !.out = Random(d1.out, d2.out)]
              a == Call(lists, gens, 1)
              b == Call(a.lists, a.gens, 2)
          IN  /\ op' = fn
              /\ lists' = b.lists
              /\ gens' = b.gens
              /\ delivered' = a.out
              /\ result' = b.out
    /\ solved_calls' = solved_calls + 1
    /\ UNCHANGED <<kind, factoryvars, multiplier, arg, cli, status, mtvars, v8vars,
                   raised, others, sync>>

\* The saved generator after any number of draws, and a generator of
\* another seed.
GenInit ==
    /\ kind = "none"
    /\ \E g \in MTInitGens :
          LET h == Create([j \in 0..(N - 1) |-> PatternWord(NumPatterns + 1, j)], N)
          IN  /\ lists = <<g.mt, h.mt>>
              /\ gens = <<[mt |-> 1, mti |-> g.mti], [mt |-> 2, mti |-> h.mti]>>
    /\ sync = FALSE
    /\ multiplier = {}
    /\ arg = <<>>
    /\ cli = [pc |-> "none"]
    /\ status = SOLVING
    /\ state = <<>>
    /\ random = <<>>
    /\ gen = Create(<<>>, 0)
    /\ calls = 0
    /\ s0_val = {}
    /\ s1_val = {}
    /\ cache_refill_counter = 0
    /\ observed_values = <<>>
    /\ solver = <<>>
    /\ sym_rot = 0
    /\ eng = [live |-> <<{}, {}>>, cache |-> <<>>]
    /\ truth = <<>>
    /\ schedule = "none"
    /\ aligned = FALSE
    /\ run = FALSE
    /\ op = "none"
    /\ raised = "none"
    /\ result = {}
    /\ delivered = {}
    /\ solved_calls = 0
    /\ others = 0
    /\ FactoryIdle

GenNext == GenSaveRestore \/ GenDrawOne \/ GenRandBits \/ GenDrawBoth

SpecGen == GenInit /\ [][GenNext]_vars

(***************************************************************************)
(* main (main.py) with -t V8: the lines of standard input are fed, then    *)
(* args.predict predictions are printed.                                   *)
(***************************************************************************)
\* Lines of input and predictions asked for, per run.
MaxCliLines == 6
MaxCliPredict == 2

\* The feeding loop without its break: every line is passed to add_value,
\* whatever the status.
CliFeedPastSolved ==
    /\ kind \in V8Kinds
    /\ cli.pc = "feed"
    /\ LET line == Head(cli.stdin)
           rest == Tail(cli.stdin)
       IN  /\ V8AddValue(line[1], line[2])
           /\ delivered' = line[1]
           /\ cli' = IF raised' = NotSolvableError \/ status' = NOT_SOLVABLE
                     THEN [cli EXCEPT !.pc = "exit", !.stdin = rest, !.code = 2]
                     ELSE IF rest = <<>>
                     THEN [cli EXCEPT !.pc = "predict", !.stdin = rest]
                     ELSE [cli EXCEPT !.stdin = rest]
    /\ UNCHANGED <<kind, factoryvars, multiplier, arg, lists, gens, mtvars, eng,
                   schedule, aligned, run, solved_calls, others, sync>>

\* One pass of the feeding loop: the next line is parsed and passed to
\* add_value; a NotSolvableError, raised by the call or by main on the status
\* NOT_SOLVABLE, exits with 2; a solved status breaks the loop, and so does
\* the end of the input.
CliFeed ==
    /\ kind \in V8Kinds
    /\ cli.pc = "feed"
    /\ LET line == Head(cli.stdin)
           rest == Tail(cli.stdin)
       IN  /\ V8AddValue(line[1], line[2])
           /\ delivered' = line[1]
           /\ cli' = IF raised' = NotSolvableError \/ status' = NOT_SOLVABLE
                     THEN [cli EXCEPT !.pc = "exit", !.stdin = rest, !.code = 2]
                     ELSE IF IsSolved(status') \/ rest = <<>>
                     THEN [cli EXCEPT !.pc = "predict", !.stdin = rest]
                     ELSE [cli EXCEPT !.stdin = rest]
    /\ UNCHANGED <<kind, factoryvars, multiplier, arg, lists, gens, mtvars, eng,
                   schedule, aligned, run, solved_calls, others, sync>>

\* One pass of the prediction loop: print(cracker.predict_next()), where
\* NotEnoughDataError exits with 3 and NotSolvableError with 2; after
\* args.predict passes main returns (exit code 0).
CliPredict ==
    /\ kind \in V8Kinds
    /\ cli.pc = "predict"
    /\ IF Len(cli.stdout) >= cli.predict
       THEN /\ cli' = [cli EXCEPT !.pc = "exit", !.code = 0]
            /\ UNCHANGED <<op, raised, result, s0_val, s1_val, cache_refill_counter>>
       ELSE /\ op' = "predict_next"
            /\ raised' = PredictError(status)
            /\ CASE PredictError(status) # "none" ->
                      /\ cli' = [cli EXCEPT !.pc = "exit",
                                   !.code = IF PredictError(status) = NotEnoughDataError
                                            THEN 3 ELSE 2]
                      /\ result' = {}
                      /\ UNCHANGED <<s0_val, s1_val, cache_refill_counter>>
                 [] status = SOLVED_BEFORE_CACHE_REFILL ->
                      LET c == rotate_state(<<s0_val, s1_val>>)
                      IN  /\ result' = peek_next_prediction(s0_val)
                          /\ cli' = [cli EXCEPT !.stdout = Append(@, result')]
                          /\ s0_val' = c[1]
                          /\ s1_val' = c[2]
                          /\ UNCHANGED cache_refill_counter
                 [] status = SOLVED ->
                      LET n == CountDown(<<s0_val, s1_val>>, cache_refill_counter)
                          c == rotate_state(n.cand)
                      IN  /\ cache_refill_counter' = n.counter
                          /\ result' = peek_next_prediction(n.cand[1])
                          /\ cli' = [cli EXCEPT !.stdout = Append(@, result')]
                          /\ s0_val' = c[1]
                          /\ s1_val' = c[2]
    /\ UNCHANGED <<kind, factoryvars, multiplier, arg, lists, gens, status, mtvars,
                   observed_values, solver, sym_rot, truth, eng, schedule, aligned,
                   run, delivered, solved_calls, others, sync>>

\* main after RandomCracker.create(RngType.V8): the input is up to
\* MaxCliLines deliveries of an engine, one of them possibly replaced by a
\* value the engine did not deliver.
CliInit ==
    /\ kind = "V8"
    /\ \E st \in {s \in V8Starts : s[1] = "V8" /\ s[3] \in LegacyPhases},
          len \in 0..MaxCliLines, predict \in 0..MaxCliPredict :
          LET RECURSIVE Lines(_, _)
              Lines(e, n) ==
                  IF n = 0 THEN <<>>
                  ELSE LET d == EngDeliver(e)
                       IN  <<<<to_double(kind, d.st[1]), d.st[1]>>>> \o Lines(d.eng, n - 1)
              lines == Lines(EngineAt(st[2], st[3]), len)
          IN  /\ eng = EngineAt(st[2], st[3])
              /\ \E bad \in 0..len, v \in OtherValues53 :
                    cli = [pc |-> IF len = 0 THEN "predict" ELSE "feed",
                           stdin |-> [i \in 1..len |->
                                        IF i = bad THEN <<v, from_double(kind, v)>>
                                        ELSE lines[i]],
                           predict |-> predict, stdout |-> <<>>, code |-> -1]
    /\ multiplier = {}
    /\ arg = <<>>
    /\ lists = <<>>
    /\ gens = <<>>
    /\ status = SOLVING
    /\ s0_val = {}
    /\ s1_val = {}
    /\ cache_refill_counter = 0
    /\ observed_values = <<>>
    /\ solver = <<>>
    /\ sym_rot = 0
    /\ truth = <<>>
    /\ schedule = "none"
    /\ aligned = FALSE
    /\ run = FALSE
    /\ op = "none"
    /\ raised = "none"
    /\ result = {}
    /\ delivered = {}
    /\ solved_calls = 0
    /\ others = 0
    /\ sync = TRUE
    /\ state = <<>>
    /\ random = <<>>
    /\ gen = Create(<<>>, 0)
    /\ calls = 0
    /\ FactoryIdle

CliNext == CliFeed \/ CliPredict

SpecCli == CliInit /\ [][CliNext]_vars

(***************************************************************************)
(* main with each solver class that create can return: MT19937Cracker,     *)
(* V8Cracker and V8CrackerLegacy.                                          *)
(***************************************************************************)
\* One pass of the feeding loop with the MT solver.
CliFeedMT ==
    /\ kind = "MT19937"
    /\ cli.pc = "feed"
    /\ LET line == Head(cli.stdin)
           rest == Tail(cli.stdin)
       IN  /\ MTAddValue(line[1])
           /\ delivered' = line[1]
           /\ cli' = IF raised' = NotSolvableError \/ status' = NOT_SOLVABLE
                     THEN [cli EXCEPT !.pc = "exit", !.stdin = rest, !.code = 2]
                     ELSE IF IsSolved(status') \/ rest = <<>>
                     THEN [cli EXCEPT !.pc = "predict", !.stdin = rest]
                     ELSE [cli EXCEPT !.stdin = rest]
    /\ UNCHANGED <<kind, factoryvars, multiplier, arg, lists, gens, gen, v8vars,
                   solved_calls, others, sync>>

\* One pass of the prediction loop with the MT solver.
CliPredictMT ==
    /\ kind = "MT19937"
    /\ cli.pc = "predict"
    /\ IF Len(cli.stdout) >= cli.predict
       THEN /\ cli' = [cli EXCEPT !.pc = "exit", !.code = 0]
            /\ UNCHANGED <<op, raised, result, random>>
       ELSE /\ op' = "predict_next"
            /\ raised' = MTPredictError(status)
            /\ CASE MTPredictError(status) # "none" ->
                      /\ cli' = [cli EXCEPT !.pc = "exit",
                                   !.code = IF MTPredictError(status) = NotEnoughDataError
                                            THEN 3 ELSE 2]
                      /\ result' = {}
                      /\ UNCHANGED random
                 [] status = SOLVED ->
                      LET r == GenRandUint32(random[1])
                      IN  /\ random' = <<r.gen>>
                          /\ result' = r.out
                          /\ cli' = [cli EXCEPT !.stdout = Append(@, result')]
    /\ UNCHANGED <<kind, factoryvars, multiplier, arg, lists, gens, status, state,
                   gen, calls, v8vars, delivered, solved_calls, others, sync>>

\* main after create returned a V8CrackerLegacy: the input is as in CliInit,
\* of an engine of the legacy kind.
CliLegacyInit ==
    /\ kind = "V8_LEGACY"
    /\ \E st \in {s \in V8Starts : s[1] = "V8_LEGACY" /\ s[3] \in LegacyPhases},
          len \in 0..MaxCliLines, predict \in 0..MaxCliPredict :
          LET RECURSIVE Lines(_, _)
              Lines(e, n) ==
                  IF n = 0 THEN <<>>
                  ELSE LET d == EngDeliver(e)
                       IN  <<<<to_double(kind, d.st[1]), d.st[1]>>>> \o Lines(d.eng, n - 1)
              lines == Lines(EngineAt(st[2], st[3]), len)
          IN  /\ eng = EngineAt(st[2], st[3])
              /\ \E bad \in 0..len, v \in OtherValues53 :
                    cli = [pc |-> IF len = 0 THEN "predict" ELSE "feed",
                           stdin |-> [i \in 1..len |->
                                        IF i = bad THEN <<v, from_double(kind, v)>>
                                        ELSE lines[i]],
                           predict |-> predict, stdout |-> <<>>, code |-> -1]
    /\ multiplier = {}
    /\ arg = <<>>
    /\ lists = <<>>
    /\ gens = <<>>
    /\ status = SOLVING
    /\ s0_val = {}
    /\ s1_val = {}
    /\ cache_refill_counter = 0
    /\ observed_values = <<>>
    /\ solver = <<>>
    /\ sym_rot = 0
    /\ truth = <<>>
    /\ schedule = "none"
    /\ aligned = FALSE
    /\ run = FALSE
    /\ op = "none"
    /\ raised = "none"
    /\ result = {}
    /\ delivered = {}
    /\ solved_calls = 0
    /\ others = 0
    /\ sync = TRUE
    /\ state = <<>>
    /\ random = <<>>
    /\ gen = Create(<<>>, 0)
    /\ calls = 0
    /\ FactoryIdle

\* main after RandomCracker.create(RngType.MT19937): the input is no line,
\* or N - 1, N or N + 1 outputs of a generator whose index is N, the first or
\* the last of them possibly replaced by a value it did not deliver.
CliMTInit ==
    /\ kind = "MT19937"
    /\ \E g \in {x \in MTInitGens : x.mti = N}, len \in {0, N - 1, N, N + 1},
          predict \in {0, MaxCliPredict} :
          LET \* n draws of x: the generator after them and the lines; the
              \* draws are made by halves, the first half before the second.
              RECURSIVE Draws(_, _)
              Draws(x, n) ==
                  IF n = 0 THEN [gen |-> x, lines |-> <<>>]
                  ELSE IF n = 1
                  THEN LET d == GenRandUint32(x)
                       IN  [gen |-> d.gen, lines |-> <<<<d.out, d.out>>>>]
                  ELSE LET a == Draws(x, n \div 2)
                       IN  IF a.lines = <<>> THEN a
                           ELSE LET b == Draws(a.gen, n - n \div 2)
                                IN  [gen |-> b.gen, lines |-> a.lines \o b.lines]
          IN  /\ gen = g
              /\ \E lines \in {Draws(g, len).lines}, bad \in {0, 1, len},
                    v \in OtherValues32 :
                    cli = [pc |-> IF len = 0 THEN "predict" ELSE "feed",
                           stdin |-> [i \in 1..len |->
                                        IF i = bad THEN <<v, v>> ELSE lines[i]],
                           predict |-> predict, stdout |-> <<>>, code |-> -1]
    /\ multiplier = {}
    /\ arg = <<>>
    /\ lists = <<>>
    /\ gens = <<>>
    /\ status = SOLVING
    /\ state = <<>>
    /\ random = <<>>
    /\ calls = 0
    /\ s0_val = {}
    /\ s1_val = {}
    /\ cache_refill_counter = 0
    /\ observed_values = <<>>
    /\ solver = <<>>
    /\ sym_rot = 0
    /\ eng = [live |-> <<{}, {}>>, cache |-> <<>>]
    /\ truth = <<>>
    /\ schedule = "none"
    /\ aligned = FALSE
    /\ run = FALSE
    /\ op = "none"
    /\ raised = "none"
    /\ result = {}
    /\ delivered = {}
    /\ solved_calls = 0
    /\ others = 0
    /\ sync = TRUE
    /\ FactoryIdle

SpecCliAll ==
    /\ CliInit \/ CliLegacyInit \/ CliMTInit
    /\ [][CliFeed \/ CliPredict \/ CliFeedMT \/ CliPredictMT]_vars

(***************************************************************************)
(* MersenneTwisterCracker.crack_from_random: the state is recovered from   *)
(* observed floats by an SMT solver on bit-vectors of 53 bits, two per     *)
(* float.  Here arg is the list of observed floats (their 53-bit           *)
(* numerators round(f * RANDOM_DIVISOR)), truth the words of the observed  *)
(* generator that produced them, and result the generator returned.        *)
(***************************************************************************)
\* BitVec(f"mt_{i}", 53)
SymWidth == 53

\* The numbers of floats observed: up to MaxFewFloats, around N / 2 (from
\* N / 2 + 1 floats on the solver has assertions of the twist), and N.
MaxFewFloats == 3
FloatCounts == (0..MaxFewFloats) \cup {N \div 2 - 1, N \div 2, N \div 2 + 1, N}

\* The assertions of one observed float on its two symbolic words y1, y2.
\* On z3 bit-vectors "<=" is the signed comparison (a word with its top bit
\* set is negative), ">>" is the arithmetic shift (it copies the top bit),
\* LShR is the logical one, and "<<" drops what passes the width.
FloatAssertion(y1, y2, observed_53_bits) ==
    LET top == SymWidth - 1
        BV(y) == And(y, 0..top)
        SLe(y, bound) == top \in y \/ y \subseteq bound
        AShr(y, k) == Or(Shr(y, k), IF top \in y THEN (SymWidth - k)..top ELSE {})
        Tempered(y) ==
            LET t1 == Xor(y, And(Shr(y, TEMPERING_U), TEMPERING_D))
                t2 == Xor(t1, And(BV(Shl(t1, TEMPERING_S)), TEMPERING_B))
                t3 == Xor(t2, And(BV(Shl(t2, TEMPERING_T)), TEMPERING_C))
            IN  Xor(t3, Shr(t3, TEMPERING_L))
        a == AShr(Tempered(y1), RANDOM_SHIFT_A)
        b == AShr(Tempered(y2), RANDOM_SHIFT_B)
        random_53_bits == Or(BV(Shl(a, 26)), b)
    IN  /\ SLe(y1, UINT32_MASK)
        /\ SLe(y2, UINT32_MASK)
        /\ random_53_bits = observed_53_bits

\* The assertion on full_mt[i], N <= i: the recurrence of the twist.
TwistAssertion(full_mt, i) ==
    LET y == Or(And(full_mt[i - N], UPPER_MASK), And(full_mt[i + 1 - N], LOWER_MASK))
        mag == IF 0 \in y THEN MATRIX_A ELSE {}
    IN  full_mt[i] = Xor(Xor(full_mt[i + M - N], Shr(y, 1)), mag)

\* full_mt (words 0..2F-1) satisfies every assertion added to the solver.
IsFloatModel(full_mt, observed_floats) ==
    /\ \A i \in 0..(Len(observed_floats) - 1) :
          FloatAssertion(full_mt[2 * i], full_mt[2 * i + 1], observed_floats[i + 1])
    /\ \A i \in N..(2 * Len(observed_floats) - 1) : TwistAssertion(full_mt, i)

\* The assignments the solver is tried with: the words of the observed
\* generator, and these with one word changed, by the top bit of the
\* bit-vector (in an early word, in each word of the last pair) or by the
\* lowest bit of its tempered value.
FloatCandidates(tr) ==
    LET mt_size == Len(tr)
        full_mt == [i \in 0..(mt_size - 1) |-> tr[i + 1]]
        Changed == {2, mt_size - 2, mt_size - 1} \cap (0..(mt_size - 1))
    IN  {full_mt}
            \cup {[full_mt EXCEPT ![k] = @ \cup {SymWidth - 1}] : k \in Changed}
            \cup {[full_mt EXCEPT ![k] = Untemper(Xor(Temper(@), {0}))] : k \in Changed}

\* solver.check() and solver.model(): sat with a model of the assertions,
\* or unknown once the timeout (set_param("timeout", 10000)) has passed on
\* a solver that has assertions.
SolverCheck(observed_floats, tr) ==
    {[res |-> "sat", model |-> m] :
        m \in {c \in FloatCandidates(tr) : IsFloatModel(c, observed_floats)}}
    \cup (IF observed_floats = <<>> THEN {}
          ELSE {[res |-> "unknown", model |-> <<>>]})

\* crack_from_random after solver.check() returned c: what it raises and
\* the generator it returns, create(mt = the values of full_mt[-N:], mti = N).
crack_from_random(observed_floats, c) ==
    IF c.res # "sat" THEN [raised |-> "RuntimeError", gen |-> {}]
    ELSE LET mt_size == 2 * Len(observed_floats)
             n == IF mt_size < N THEN mt_size ELSE N
         IN  [raised |-> "none",
              gen |-> Create([j \in 0..(n - 1) |-> c.model[mt_size - n + j]], N)]

CrackFromRandom ==
    /\ op = "none"
    /\ op' = "crack_from_random"
    /\ \E c \in SolverCheck(arg, truth) :
          LET r == crack_from_random(arg, c)
          IN  /\ raised' = r.raised
              /\ result' = r.gen
    /\ UNCHANGED <<setup, status, mtvars, v8vars, delivered, solved_calls,
                   others, sync>>

\* The floats are the first F outputs of random() of a generator; a
\* generator draws the words of a state vector in turn and twists it when
\* they are used up.
FloatInit ==
    /\ kind = "none"
    /\ \E g \in MTInitGens, F \in FloatCounts :
          \E t1 \in {Twist(g.mt)} :
             \E t2 \in {Twist(t1)} :
                LET Word(k) == LET p == g.mti + k
                               IN  IF p < N THEN g.mt[p]
                                   ELSE IF p < 2 * N THEN t1[p - N]
                                   ELSE t2[p - 2 * N]
                IN  /\ truth = [k \in 1..(2 * F) |-> Word(k - 1)]
                    /\ arg = [i \in 1..F |->
                                Random(Temper(Word(2 * i - 2)), Temper(Word(2 * i - 1)))]
    /\ multiplier = {}
    /\ lists = <<>>
    /\ gens = <<>>
    /\ cli = [pc |-> "none"]
    /\ status = SOLVING
    /\ state = <<>>
    /\ random = <<>>
    /\ gen = Create(<<>>, 0)
    /\ calls = 0
    /\ s0_val = {}
    /\ s1_val = {}
    /\ cache_refill_counter = 0
    /\ observed_values = <<>>
    /\ solver = <<>>
    /\ sym_rot = 0
    /\ eng = [live |-> <<{}, {}>>, cache |-> <<>>]
    /\ schedule = "none"
    /\ aligned = FALSE
    /\ run = FALSE
    /\ op = "none"
    /\ raised = "none"
    /\ result = {}
    /\ delivered = {}
    /\ solved_calls = 0
    /\ others = 0
    /\ sync = TRUE
    /\ FactoryIdle

SpecFloat == FloatInit /\ [][CrackFromRandom]_vars

(***************************************************************************)
(* V8RandomCracker.solve of v8_random_cracker.py, the batch solver.  Here  *)
(* kind names the converter the cracker holds ("V8": DivisionConverter,    *)
(* "V8_LEGACY": BinaryCastConverter), observed_values is the argument,     *)
(* calls counts the frames of solve entered, and run is _is_solved (solve  *)
(* has returned True).                                                     *)
(***************************************************************************)
\* The frames of solve the interpreter allows before RecursionError, and
\* the longest list observed.
MaxSolveFrames == 3
MaxBatch == 6

\* The n values an engine e of the kind knd delivers next.
RECURSIVE Delivered(_, _, _)
Delivered(knd, e, n) ==
    IF n = 0 THEN <<>>
    ELSE LET d == EngDeliver(e)
         IN  <<to_double(knd, d.st[1])>> \o Delivered(knd, d.eng, n - 1)

\* The lists observed: up to MaxBatch consecutive deliveries of an engine
\* of either kind, from the start of a batch or from its last values on
\* (the list then runs into the next batch), and the same lists with the
\* newest value replaced by one the engine did not deliver.
BatchInputs ==
    LET phases == {0} \cup ((CACHE_REFILL_SIZE - 4)..(CACHE_REFILL_SIZE - 1))
        true == {Delivered(knd, EngineAt(GenericTop, k), n) :
                    knd \in V8Kinds, k \in phases, n \in 0..MaxBatch}
    IN  true \cup {[l EXCEPT ![Len(l)] = v] : l \in true \ {<<>>}, v \in OtherValues53}

\* One frame of solve.  The assertions are LShR(current_s0, shift) ==
\* known_bits on the states next_state generates from (s0_initial,
\* s1_initial), for the list reversed; they are written here on the states
\* that previous_state generates from the state of the oldest value, which
\* is the same system of equations in other unknowns (next_state is a
\* bijection).  A frame whose check is not sat resets the solver, takes the
\* BinaryCastConverter and calls solve again.
SolveFrame ==
    /\ op' = "solve"
    /\ calls' = calls + 1
    /\ IF Len(observed_values) < 2
       THEN /\ raised' = "ValueError"
            /\ UNCHANGED <<kind, solver, run>>
       ELSE LET c == Replay([solver |-> solver, sym_rot |-> 0], observed_values)
            IN  IF IsSat(Echelon(c.solver))
                THEN /\ solver' = c.solver
                     /\ run' = TRUE
                     /\ UNCHANGED <<kind, raised>>
                ELSE /\ kind' = "V8_LEGACY"
                     /\ solver' = <<>>
                     /\ raised' = IF calls + 1 >= MaxSolveFrames
                                  THEN "RecursionError" ELSE "none"
                     /\ UNCHANGED run
    /\ UNCHANGED <<factoryvars, extravars, status, state, random, gen, s0_val, s1_val,
                   cache_refill_counter, observed_values, sym_rot, eng, truth,
                   schedule, aligned, result, delivered, solved_calls, others, sync>>

\* cracker.solve(observed_sequence)
BatchSolve ==
    /\ op = "none"
    /\ SolveFrame

\* return self.solve(observed_sequence), the call of the fallback
BatchSolveAgain ==
    /\ op = "solve"
    /\ raised = "none"
    /\ ~run
    /\ SolveFrame

\* V8RandomCracker()
BatchInit ==
    /\ kind = "V8"
    /\ observed_values \in BatchInputs
    /\ status = SOLVING
    /\ s0_val = {}
    /\ s1_val = {}
    /\ cache_refill_counter = 0
    /\ solver = <<>>
    /\ sym_rot = 0
    /\ eng = [live |-> <<{}, {}>>, cache |-> <<>>]
    /\ truth = <<>>
    /\ schedule = "none"
    /\ aligned = FALSE
    /\ run = FALSE
    /\ op = "none"
    /\ raised = "none"
    /\ result = {}
    /\ delivered = {}
    /\ solved_calls = 0
    /\ others = 0
    /\ sync = TRUE
    /\ state = <<>>
    /\ random = <<>>
    /\ gen = Create(<<>>, 0)
    /\ calls = 0
    /\ FactoryIdle
    /\ ExtraIdle

SpecBatch == BatchInit /\ [][BatchSolve \/ BatchSolveAgain]_vars

Init == MTInit \/ V8Init \/ CreateInit

Next == MTNext \/ V8Next \/ CreateNext

Spec == Init /\ [][Next]_vars

(***************************************************************************)
(* Properties                                                              *)
(***************************************************************************)
\* C1: once a fresh MT solver has been fed N consecutive outputs of the
\* generator (from any index position), and only further outputs of it
\* since, every predict_next returns the generator's next output and
\* raises nothing, also across twists.
C1_MTPredictsGenerator ==
    (kind = "MT19937" /\ sync /\ status = SOLVED /\ op = "predict_next")
        => (raised = "none" /\ result = delivered)

\* A second prediction of the synchronised MT solver: the recovered generator
\* is installed at index N, so that its first draw twisted its state.
C1_Witness ==
    /\ kind = "MT19937" /\ sync /\ status = SOLVED /\ op = "predict_next"
    /\ solved_calls > 1
    /\ result = delivered /\ result # {}

\* C2: once the V8 solver is SOLVED with its candidate the state of the
\* engine's next delivery and cache_refill_counter - 1 the number of values
\* left in the engine's batch, every call that is predict_next or add_value
\* of the engine's next delivery leaves the status SOLVED and raises
\* nothing, and every predict_next returns the engine's next delivery.
C2_AlignedSolvedStaysRight ==
    [][(kind \in V8Kinds /\ aligned /\ others' = others)
          => /\ status' = SOLVED
             /\ raised' = "none"
             /\ op' = "predict_next" => result' = delivered']_vars

\* A prediction of an aligned solver on which the refill compensation of
\* SOLVED fired: the counter is back at CACHE_REFILL_SIZE after more than
\* half a batch of calls.
C2_Witness ==
    /\ kind \in V8Kinds /\ aligned /\ status = SOLVED /\ op = "predict_next"
    /\ cache_refill_counter = CACHE_REFILL_SIZE
    /\ solved_calls > CACHE_REFILL_SIZE \div 2
    /\ result = delivered /\ result # {}

\* C3: once the V8 solver is SOLVED_BEFORE_CACHE_REFILL with its candidate
\* the state of the engine's next delivery, every predict_next of a run of
\* predictions returns the engine's next delivery.
C3_RunPredictsDeliveries ==
    (kind \in V8Kinds /\ run /\ status = SOLVED_BEFORE_CACHE_REFILL /\ op = "predict_next")
        => result = delivered

\* Observations after which a solver fed the engine's deliveries only is
\* solved.
SolveWindow == 6

\* C4: a V8 solver fed the engine's deliveries only, from any cache phase,
\* never is NOT_SOLVABLE, is solved after SolveWindow observations at the
\* latest, and no add_value of a delivery raises.
C4_TrueDeliveriesSolve ==
    (kind \in V8Kinds /\ sync /\ schedule \in {"none", "add"})
        => /\ status # NOT_SOLVABLE
           /\ Len(observed_values) >= SolveWindow => IsSolved(status)
           /\ op = "add_value" => raised = "none"

\* C5: NOT_SOLVABLE is terminal for both solvers: every call made in it
\* raises NotSolvableError and leaves the status NOT_SOLVABLE.
C5_NotSolvableIsTerminal ==
    [][(status = NOT_SOLVABLE /\ op' \in {"add_value", "predict_next"})
          => (status' = NOT_SOLVABLE /\ raised' = NotSolvableError)]_vars

\* A V8 solver that failed, after an add_value made in NOT_SOLVABLE.
C5_Witness ==
    /\ kind \in V8Kinds /\ status = NOT_SOLVABLE /\ op = "add_value"
    /\ raised = NotSolvableError
    /\ others = MaxV8Others

\* C6: in SOLVED, MT add_value(v) draws exactly one output of the recovered
\* generator; when v is that output the status stays SOLVED and nothing is
\* raised, else the status becomes NOT_SOLVABLE and NotSolvableError is
\* raised.
C6_MTAddValueInSolved ==
    [][(kind = "MT19937" /\ status = SOLVED /\ op' = "add_value")
          => LET r == GenRandUint32(random[1])
             IN  /\ random' = <<r.gen>>
                 /\ IF delivered' = r.out
                    THEN status' = SOLVED /\ raised' = "none"
                    ELSE status' = NOT_SOLVABLE /\ raised' = NotSolvableError]_vars

\* An MT solver that was solved and failed on a value the generator did not
\* deliver.
C6_Witness ==
    /\ kind = "MT19937" /\ status = NOT_SOLVABLE /\ op = "add_value"
    /\ raised = NotSolvableError
    /\ Len(state) = N /\ solved_calls > 0 /\ ~sync

\* C7: after k add_value calls on a fresh MT solver the status is SOLVING for
\* k < N and not SOLVING from k = N on; the buffer holds the untempered
\* values in arrival order, never more than N, and what the N-th call
\* installs is the buffer with index N.
C7_MTSolvesOnNthValue ==
    /\ [](kind = "MT19937" =>
            /\ calls < N => (status = SOLVING /\ random = <<>> /\ Len(state) = calls)
            /\ calls >= N => (status # SOLVING /\ Len(state) = N)
            /\ (calls = N /\ op = "add_value") =>
                   (status = SOLVED /\ random = <<CreateRandom(state \o <<N>>)>>))
    /\ [][(kind = "MT19937" /\ status = SOLVING /\ op' = "add_value")
            => state' = Append(state, Untemper(delivered'))]_vars

\* The MT solver right after its N-th value.
C7_Witness ==
    /\ kind = "MT19937" /\ calls = N /\ op = "add_value" /\ status = SOLVED
    /\ Len(state) = N

CandidateFollowsObservation ==
    /\ truth # <<>>
    /\ next_state(s0_val, s1_val)[1] = truth[Len(truth)]

\* C9: in a solved status the first predict_next after an accepted
\* add_value(v) of the generator's output returns the output the generator
\* delivers right after v: for the MT solver, and for the V8 solvers when
\* the candidate is one previous_state step behind the state of v (both
\* fed outputs of the generator only).
C9_PredictFollowsAddValue ==
    [][(/\ sync /\ IsSolved(status)
        /\ kind = "MT19937" \/ (kind \in V8Kinds /\ CandidateFollowsObservation)
        /\ op = "add_value" /\ raised = "none" /\ op' = "predict_next")
          => result' = delivered']_vars

\* The class create is to return for each name.
MatchingClass(t) ==
    CASE t = "V8" -> "V8Cracker"
      [] t = "V8_LEGACY" -> "V8CrackerLegacy"
      [] t = "V8_INT" -> "V8IntCracker"
      [] t = "MT19937" -> "MT19937Cracker"

\* C10: with every solver module imported, create returns for each of the
\* names V8, V8_LEGACY, V8_INT, MT19937 an instance of the matching class,
\* and never fails.
C10_CreateReturnsMatchingClass ==
    (pc = "done" /\ \A m \in Modules : Load(registry, m) = registry)
        => created = MatchingClass(rng_type)

\* The integer projection of the double v under the multiplier 2^m (the
\* word mult = {m}): floor(v * 2^m).
IntProjection(v, mult) == Shr(Shl(v, CHOOSE m \in mult : TRUE), 53)

C12_TemperingRoundTrip == op = "tempering" => result = <<arg[1], arg[1]>>

\* A word of several bits that the tempering changes, after both round
\* trips.
C12_Witness ==
    /\ op = "tempering"
    /\ Cardinality(arg[1]) > 1
    /\ Temper(arg[1]) # arg[1]
    /\ result = <<arg[1], arg[1]>>

\* C13: for every state (s0, s1) of two 64-bit words,
\* previous_state(next_state(s0, s1)) = (s0, s1).
C13_PreviousOfNext == op = "xorshift" => result = arg

\* A state with both words set, after the round trip.
C13_Witness == op = "xorshift" /\ arg[1] # {} /\ arg[2] # {} /\ result = arg

\* C14: for each converter and every 64-bit state s, from_double(to_double(s))
\* is s with its low k bits cleared (k = 11 for the DivisionConverter, 12 for
\* the BinaryCastConverter), and to_double(s) is to_double of s with its low
\* k bits cleared.
C14_ConverterRoundTrip ==
    /\ op = "DivisionConverter" =>
          (result[1] = arg[1] \ (0..10) /\ result[2] = result[3])
    /\ op = "BinaryCastConverter" =>
          (result[1] = arg[1] \ (0..11) /\ result[2] = result[3])

\* A state with ignored bits and kept bits set, through the
\* BinaryCastConverter.
C14_Witness ==
    /\ op = "BinaryCastConverter"
    /\ arg[1] \cap (0..11) # {}
    /\ arg[1] \ (0..11) # {}
    /\ result[1] = arg[1] \ (0..11)

\* C15: once the state that getstate returns is installed by setstate in
\* another generator, the two generators produce the same 32-bit and float
\* outputs as long as they make the same draws, and a draw from one of them
\* leaves the list and the index of the other as they were.
C15_SaveRestoreRoundTrip ==
    /\ []((gens # <<>> /\ sync /\ op \in {"gen_rand_uint32", "random"})
            => result = delivered)
    /\ [][(gens # <<>> /\ op' = "gen_rand_uint32" /\ calls' = calls + 1)
            => \E i \in 1..2 : /\ lists'[gens'[i].mt] = lists[gens[i].mt]
                               /\ gens'[i].mti = gens[i].mti]_vars

\* Float outputs of the two generators after a restore at the end of the
\* state array: both have twisted their own list.
C15_Witness ==
    /\ gens # <<>> /\ sync /\ op = "random"
    /\ gens[1].mti = 2 /\ gens[2].mti = 2
    /\ gens[1].mt # gens[2].mt
    /\ lists[gens[1].mt] = lists[gens[2].mt]
    /\ lists[1] # [j \in 0..(N - 1) |-> PatternWord(1, j)]
    /\ result = delivered /\ result # {}

\* What C16 states for every run of main, but for its exit code when the
\* input is used up before the solver has solved: each line read is the one
\* passed to add_value, no line is passed once the status is SOLVED or
\* SOLVED_BEFORE_CACHE_REFILL, each prediction is printed, and a run that
\* reached a solved status ends with args.predict lines printed.
CliFeedsThenPredicts ==
    /\ [](cli.pc = "exit" /\ status \in {SOLVED, SOLVED_BEFORE_CACHE_REFILL}
            => (cli.code = 0 /\ Len(cli.stdout) = cli.predict))
    /\ [][/\ cli'.stdin # cli.stdin =>
                /\ status \notin {SOLVED, SOLVED_BEFORE_CACHE_REFILL}
                /\ op' = "add_value"
                /\ delivered' = Head(cli.stdin)[1]
                /\ cli'.stdin = Tail(cli.stdin)
                /\ cli'.stdout = <<>>
          /\ cli'.stdout # cli.stdout =>
                /\ op' = "predict_next" /\ raised' = "none"
                /\ cli'.stdout = Append(cli.stdout, result')
                /\ Len(cli.stdout) < cli.predict
                /\ cli'.stdin = cli.stdin]_vars

\* C16 as stated: main feeds the input in order, stops feeding at the first
\* solved status, then prints args.predict predictions, and exits with 3
\* when the input is used up in a solving status.
C16_CliExitsWith3 ==
    /\ CliFeedsThenPredicts
    /\ [](cli.pc = "exit" /\ status \in {SOLVING, CACHE_REFILLED_WHILE_SOLVING}
            => cli.code = 3)

\* C16, exit code amended: when the input is used up in a solving status,
\* main exits with 3 if args.predict >= 1 and with 0, having printed nothing,
\* if args.predict = 0.
C16_CliFeedsThenPredictsAmended ==
    /\ CliFeedsThenPredicts
    /\ [](cli.pc = "exit" /\ status \in {SOLVING, CACHE_REFILLED_WHILE_SOLVING}
            => /\ cli.stdout = <<>>
               /\ cli.code = IF cli.predict >= 1 THEN 3 ELSE 0)

\* A run that stopped feeding with lines left and printed its predictions.
C16_Witness ==
    /\ cli.pc = "exit" /\ cli.code = 0
    /\ cli.stdin # <<>>
    /\ cli.predict = MaxCliPredict
    /\ Len(cli.stdout) = cli.predict

\* C17: add_value(v) in SOLVED_BEFORE_CACHE_REFILL: when v is the output of
\* the candidate, the candidate goes one previous_state step back and the
\* status and the counter stay; otherwise the counter is CACHE_REFILL_SIZE
\* and the candidate is taken 128 next_state steps forward, and when v is
\* the output of that state the status is SOLVED and the candidate one
\* previous_state step behind it, else the status is NOT_SOLVABLE and
\* NotSolvableError is raised.  When the engine's batch is drained, the
\* candidate is the state before the first generated state of that batch
\* and the engine's next delivery is the mismatching v, the state 128 steps
\* forward is the state of that delivery, the first of the new batch.
C17_AddValueBeforeCacheRefill ==
    [][(/\ kind \in V8Kinds
        /\ status = SOLVED_BEFORE_CACHE_REFILL
        /\ op' = "add_value"
        /\ Len(observed_values') = Len(observed_values) + 1)
       => LET v == delivered'
              advanced == Advance(<<s0_val, s1_val>>, 128)
          IN  /\ IF v = to_double(kind, s0_val)
                 THEN /\ <<s0_val', s1_val'>> = previous_state(s0_val, s1_val)
                      /\ status' = status
                      /\ cache_refill_counter' = cache_refill_counter
                      /\ raised' = "none"
                 ELSE /\ cache_refill_counter' = 64
                      /\ IF v = to_double(kind, advanced[1])
                         THEN /\ status' = SOLVED
                              /\ <<s0_val', s1_val'>> =
                                    previous_state(advanced[1], advanced[2])
                              /\ raised' = "none"
                         ELSE /\ status' = NOT_SOLVABLE
                              /\ raised' = NotSolvableError
              /\ (/\ eng.cache = <<>>
                  /\ eng' # eng
                  /\ LET first == Backward(eng.live, CACHE_REFILL_SIZE)[1]
                     IN  <<s0_val, s1_val>> = previous_state(first[1], first[2])
                  /\ v # to_double(kind, s0_val))
                 => /\ advanced = EngNextState(eng)
                    /\ status' = SOLVED]_vars

\* The first delivery of a new batch fed to a solver that was
\* SOLVED_BEFORE_CACHE_REFILL with the candidate behind the drained batch:
\* the only call made in a solved status, SOLVED with the counter at
\* CACHE_REFILL_SIZE and the candidate the state of the next delivery.
C17_Witness ==
    /\ kind \in V8Kinds /\ status = SOLVED /\ op = "add_value" /\ raised = "none"
    /\ sync /\ solved_calls = 1
    /\ Len(observed_values) < CACHE_REFILL_SIZE \div 2
    /\ cache_refill_counter = CACHE_REFILL_SIZE
    /\ Len(eng.cache) = CACHE_REFILL_SIZE - 1
    /\ <<s0_val, s1_val>> = EngNextState(eng)

\* C18: every predict_next and add_value made in SOLVED takes one off
\* cache_refill_counter first; when that gives 0 the candidate is taken 128
\* next_state steps forward and the counter is 64 after the call; the
\* prediction or the comparison is made on the candidate so obtained.  The
\* compensations are 64 calls apart: a solver that became SOLVED with b
\* observations buffered and was only asked to predict since has, after c
\* calls, a counter that makes b + c + counter - 1 a multiple of 64.
C18_SolvedCountsDown ==
    /\ [][(kind \in V8Kinds /\ status = SOLVED /\ solved_calls' = solved_calls + 1)
          => LET fires == cache_refill_counter - 1 = 0
                 used == IF fires THEN Advance(<<s0_val, s1_val>>, 128)
                         ELSE <<s0_val, s1_val>>
             IN  /\ cache_refill_counter' =
                       IF fires THEN 64 ELSE cache_refill_counter - 1
                 /\ op' = "predict_next" =>
                       /\ result' = to_double(kind, used[1])
                       /\ <<s0_val', s1_val'>> = previous_state(used[1], used[2])
                 /\ op' = "add_value" =>
                       IF delivered' = to_double(kind, used[1])
                       THEN /\ status' = SOLVED
                            /\ <<s0_val', s1_val'>> = previous_state(used[1], used[2])
                       ELSE /\ status' = NOT_SOLVABLE
                            /\ raised' = NotSolvableError]_vars
    /\ []((kind \in V8Kinds /\ status = SOLVED /\ schedule = "predict")
            => (Len(observed_values) + solved_calls + cache_refill_counter - 1) % 64 = 0)

\* The second refill compensation of a solver that was only asked to predict
\* since it became SOLVED, 64 calls after the first.
C18_Witness ==
    /\ kind \in V8Kinds /\ status = SOLVED /\ schedule = "predict"
    /\ op = "predict_next" /\ raised = "none"
    /\ cache_refill_counter = CACHE_REFILL_SIZE
    /\ solved_calls = 2 * CACHE_REFILL_SIZE + 1 - Len(observed_values)

\* C19: the call that takes the solver from CACHE_REFILLED_WHILE_SOLVING to
\* SOLVED leaves cache_refill_counter at 64 - b + 1, b the number of
\* observations then buffered.  When these b observations are the values
\* the engine delivered since its last refill, the refill compensation
\* fires on the call that consumes the first value of the engine's next
\* batch and on no call before it: for a solver that is only asked to
\* predict from then on (b is still the length of its buffer, and the
\* engine has delivered b + solved_calls values since that refill), and for
\* one that is only fed the deliveries (its buffer holds them all).
C19_CounterAfterRefillWhileSolving ==
    /\ [][(kind \in V8Kinds /\ status = CACHE_REFILLED_WHILE_SOLVING /\ status' = SOLVED)
          => cache_refill_counter' = 64 - Len(observed_values') + 1]_vars
    /\ [][(/\ kind \in V8Kinds /\ status = SOLVED /\ sync
           /\ solved_calls' = solved_calls + 1
           /\ \/ /\ schedule = "predict"
                 /\ (Len(observed_values) + solved_calls + Len(eng.cache)) % 64 = 0
              \/ /\ schedule = "add"
                 /\ (Len(observed_values) + Len(eng.cache)) % 64 = 0)
          => /\ cache_refill_counter - 1 = 0 <=> eng.cache = <<>>
             /\ raised' = "none"
             /\ op' = "predict_next" => result' = delivered']_vars

\* The first refill compensation of a solver that became SOLVED from
\* CACHE_REFILLED_WHILE_SOLVING with the values of the engine's batch in its
\* buffer and was only asked to predict since: the prediction is the first
\* delivery of the engine's next batch.
C19_Witness ==
    /\ kind \in V8Kinds /\ status = SOLVED /\ sync /\ schedule = "predict"
    /\ op = "predict_next" /\ raised = "none"
    /\ cache_refill_counter = CACHE_REFILL_SIZE
    /\ Len(eng.cache) = CACHE_REFILL_SIZE - 1
    /\ solved_calls = CACHE_REFILL_SIZE + 1 - Len(observed_values)
    /\ result = delivered

C21_DropOldestKeepsLongestSatSuffix ==
    [][(/\ kind \in V8Kinds
        /\ status = CACHE_REFILLED_WHILE_SOLVING
        /\ status' = CACHE_REFILLED_WHILE_SOLVING
        /\ op' = "add_value")
       => LET full == Append(observed_values, delivered')
              n == Len(full)
              SatFrom(k) ==
                  IsSat(Echelon(Replay([solver |-> <<>>, sym_rot |-> 0],
                                       SubSeq(full, k, n)).solver))
              RECURSIVE FirstSatFrom(_)
              FirstSatFrom(k) ==
                  IF k > n \/ SatFrom(k) THEN k ELSE FirstSatFrom(k + 1)
              longest == FirstSatFrom(1)
          IN  /\ longest <= n
              /\ observed_values' = SubSeq(full, longest, n)
              /\ observed_values' # <<>>
              /\ observed_values'[Len(observed_values')] = delivered'
              /\ raised' = "none"]_vars

\* A solver in CACHE_REFILLED_WHILE_SOLVING whose constraints are
\* satisfiable: it entered the status with unsatisfiable ones, so the loop
\* has dropped observations, and it kept two or more.
C21_Witness ==
    /\ kind \in V8Kinds /\ status = CACHE_REFILLED_WHILE_SOLVING
    /\ op = "add_value" /\ raised = "none"
    /\ Len(observed_values) >= 2
    /\ observed_values[Len(observed_values)] = delivered
    /\ IsSat(Echelon(solver))

\* C22: while the V8 solver is SOLVING or CACHE_REFILLED_WHILE_SOLVING, its
\* SMT solver holds the assertions that a fresh solver holds after
\* _add_constraint of each buffered observation in buffer order: one
\* assertion per observation, the k-th on the symbols rotated k - 1 times,
\* and the symbolic pair is rotated once per observation.
C22_ConstraintsAreTheBuffer ==
    (kind \in V8Kinds /\ status \in {SOLVING, CACHE_REFILLED_WHILE_SOLVING})
        => LET fresh == Replay([solver |-> <<>>, sym_rot |-> 0], observed_values)
           IN  /\ solver = fresh.solver
               /\ sym_rot = fresh.sym_rot
               /\ Len(solver) = Len(observed_values)
               /\ sym_rot = Len(observed_values)
               /\ \A k \in 1..Len(solver) :
                     /\ solver[k].rot = k - 1
                     /\ solver[k].bits =
                           Shr(from_double(kind, observed_values[k]),
                               get_ignored_lower_bits(kind))

\* A solver in CACHE_REFILLED_WHILE_SOLVING after a drop-oldest replay (its
\* assertions are satisfiable again), with three observations or more.
C22_Witness ==
    /\ kind \in V8Kinds /\ status = CACHE_REFILLED_WHILE_SOLVING
    /\ Len(solver) >= 3 /\ sym_rot = Len(solver)
    /\ solver[1].rot = 0
    /\ IsSat(Echelon(solver))

\* C23: add_value(v) in SOLVING.  When v is not the output of the candidate,
\* the assertion of v is added to the solver, the only one, and v to the
\* buffer: when the assertions are satisfiable the status stays SOLVING;
\* when they are not it becomes CACHE_REFILLED_WHILE_SOLVING, no observation
\* is dropped and the candidate is left as it was.  When v is the output of
\* the candidate no assertion is added, the candidate goes one
\* previous_state step back and the status becomes
\* SOLVED_BEFORE_CACHE_REFILL.
C23_AddValueInSolving ==
    [][(kind \in V8Kinds /\ status = SOLVING /\ op' = "add_value")
       => LET v == delivered'
              shift == get_ignored_lower_bits(kind)
          IN  /\ observed_values' = Append(observed_values, v)
              /\ raised' = "none"
              /\ IF v # to_double(kind, s0_val)
                 THEN /\ solver' = Append(solver,
                                Assertion(sym_rot, shift, Shr(from_double(kind, v), shift)))
                      /\ sym_rot' = sym_rot + 1
                      /\ IF IsSat(Echelon(solver'))
                         THEN status' = SOLVING
                         ELSE /\ status' = CACHE_REFILLED_WHILE_SOLVING
                              /\ s0_val' = s0_val
                              /\ s1_val' = s1_val
                 ELSE /\ solver' = solver
                      /\ sym_rot' = sym_rot
                      /\ <<s0_val', s1_val'>> = previous_state(s0_val, s1_val)
                      /\ status' = SOLVED_BEFORE_CACHE_REFILL]_vars

\* The solver right after the add_value whose check failed: it is
\* CACHE_REFILLED_WHILE_SOLVING with every observation still buffered and
\* asserted.
C23_Witness ==
    /\ kind \in V8Kinds /\ status = CACHE_REFILLED_WHILE_SOLVING
    /\ op = "add_value" /\ raised = "none"
    /\ Len(observed_values) >= 3 /\ Len(solver) = Len(observed_values)
    /\ ~IsSat(Echelon(solver))

\* C24: the add_value that takes the V8 solver from SOLVING to
\* SOLVED_BEFORE_CACHE_REFILL or from CACHE_REFILLED_WHILE_SOLVING to SOLVED
\* compares the observation with a candidate obtained from a model of the
\* assertions of all buffered observations: the solver holds assertions,
\* they are satisfiable, and the candidate is the symbolic pair's value in
\* a model of them (sym_rot next_state steps from the candidate give the
\* model's s0, one step less the word A1).
C24_MatchOnlyAgainstModel ==
    [][(/\ kind \in V8Kinds
        /\ status \in {SOLVING, CACHE_REFILLED_WHILE_SOLVING}
        /\ status' \in {SOLVED, SOLVED_BEFORE_CACHE_REFILL})
       => /\ solver # <<>>
          /\ ModelLen(solver) = 2
          /\ IsSat(Echelon(solver))
          /\ IsModel(solver, Advance(<<s0_val, s1_val>>, sym_rot)[1],
                      Advance(<<s0_val, s1_val>>, sym_rot - 1)[1])]_vars

\* C25: the status of the V8 solver changes only in add_value and only from
\* SOLVING to SOLVED_BEFORE_CACHE_REFILL or CACHE_REFILLED_WHILE_SOLVING,
\* from CACHE_REFILLED_WHILE_SOLVING to SOLVED, from
\* SOLVED_BEFORE_CACHE_REFILL to SOLVED or NOT_SOLVABLE, and from SOLVED to
\* NOT_SOLVABLE; predict_next leaves it as it is.
C25_StatusEdges ==
    [][(kind \in V8Kinds)
       => /\ status' # status =>
               /\ op' = "add_value"
               /\ <<status, status'>> \in
                     {<<SOLVING, SOLVED_BEFORE_CACHE_REFILL>>,
                      <<SOLVING, CACHE_REFILLED_WHILE_SOLVING>>,
                      <<CACHE_REFILLED_WHILE_SOLVING, SOLVED>>,
                      <<SOLVED_BEFORE_CACHE_REFILL, SOLVED>>,
                      <<SOLVED_BEFORE_CACHE_REFILL, NOT_SOLVABLE>>,
                      <<SOLVED, NOT_SOLVABLE>>}
          /\ (op' = "predict_next" => status' = status)]_vars

\* A solver that went from SOLVING through CACHE_REFILLED_WHILE_SOLVING and
\* SOLVED to NOT_SOLVABLE: it failed on a value fed after a prediction made
\* in SOLVED, with a counter that the step to SOLVED set below
\* CACHE_REFILL_SIZE.
C25_Witness ==
    /\ kind \in V8Kinds /\ status = NOT_SOLVABLE /\ op = "add_value"
    /\ raised = NotSolvableError
    /\ solved_calls = 2
    /\ cache_refill_counter = CACHE_REFILL_SIZE - (Len(observed_values) - 1) + 1 - 2

\* C26 as stated: the symbolic rotation of the V8 solver is, on 64-bit
\* pairs, the function next_state.
C26_RotationIsNextState ==
    op = "rotate_symbolic_state" => result = next_state(arg[1], arg[2])

\* C26, direction amended: the symbolic rotation of the V8 solver is, on
\* 64-bit pairs, the function previous_state, the single step backward of
\* xorshift128+, and next_state undoes it.
C26_RotationIsPreviousState ==
    op = "rotate_symbolic_state"
        => /\ result = previous_state(arg[1], arg[2])
           /\ next_state(result[1], result[2]) = arg

\* A rotated pair of two words that are not zero, which next_state does not
\* give.
C26_Witness ==
    /\ op = "rotate_symbolic_state"
    /\ arg[1] # {} /\ arg[2] # {}
    /\ result = previous_state(arg[1], arg[2])
    /\ result # next_state(arg[1], arg[2])

C28_NotSatRaisesNotSolvable ==
    (op = "crack_from_random" /\ raised # "none") => raised = NotSolvableError

\* C29: every word of the state vector that crack_from_random returns is
\* below 2^32.
C29_RecoveredWordsBelow2To32 ==
    (op = "crack_from_random" /\ raised = "none")
        => \A j \in DOMAIN result.mt : result.mt[j] \subseteq UINT32_MASK

\* C30: a generator that crack_from_random returns has N words and the
\* index N, and none is returned for fewer than N / 2 floats.
C30_ReturnedGeneratorHasNWords ==
    (op = "crack_from_random" /\ raised = "none")
        => /\ 2 * Len(arg) >= N
           /\ DOMAIN result.mt = 0..(N - 1)
           /\ result.mti = N

\* C31: the float that random() returns, times 2^53, is
\* ((temper(w1) >> 5) << 26) | (temper(w2) >> 6) for the two state words
\* w1, w2 that the call consumed, first word in the high part, and the two
\* words satisfy the assertions that crack_from_random adds for that float.
C31_RandomIsTheAssertedEquation ==
    [][(op' = "random" /\ gens # <<>>)
        => LET d1 == GenDraw(lists, gens, 1)
               d2 == GenDraw(d1.lists, d1.gens, 1)
               w1 == d1.lists[d1.gens[1].mt][d1.gens[1].mti - 1]
               w2 == d2.lists[d2.gens[1].mt][d2.gens[1].mti - 1]
           IN  /\ w1 \subseteq UINT32_MASK
               /\ w2 \subseteq UINT32_MASK
               /\ delivered' = Or(Shl(Shr(Temper(w1), 5), 26), Shr(Temper(w2), 6))
               /\ FloatAssertion(w1, w2, delivered')]_vars

\* random() returned a float with bits from both of its draws.
C31_Witness ==
    /\ op = "random"
    /\ delivered \cap (26..52) # {}
    /\ delivered \cap (0..25) # {}

\* C32: when a draw of a generator twists its state, the words m[0..N-1]
\* before the twist followed by the words m[N..2N-1] after it satisfy the
\* recurrence that crack_from_random asserts, m[i] = m[i + M - N] ^ (y >> 1)
\* ^ ((y & 1) * MATRIX_A) with y = (m[i - N] & UPPER_MASK) |
\* (m[i + 1 - N] & LOWER_MASK), for every i in N..2N-1, and every word is
\* below 2^32.
C32_TwistIsTheRecurrence ==
    [][\A g \in 1..2 :
         (/\ gens # <<>>
          /\ op' \in {"gen_rand_uint32", "random"}
          /\ gens'[g].mti < gens[g].mti)
            => LET old == lists[gens[g].mt]
                   new == lists'[gens[g].mt]
                   m == [i \in 0..(2 * N - 1) |-> IF i < N THEN old[i] ELSE new[i - N]]
               IN  \A i \in N..(2 * N - 1) :
                      /\ TwistAssertion(m, i)
                      /\ m[i] \subseteq UINT32_MASK]_vars

\* The generator of the irregular pattern has twisted its state in its
\* first draw.
C32_Witness ==
    /\ gens # <<>>
    /\ op = "gen_rand_uint32"
    /\ gens[1].mti = 1
    /\ lists[gens[1].mt] = Twist([j \in 0..(N - 1) |-> PatternWord(1, j)])
    /\ \E j \in 0..(N - 1) : lists[gens[1].mt][j] # {}

\* C33: the N state words of the generator of a solved MT solver are not
\* all zero, whatever values were observed.
C33_StateNotAllZero ==
    (kind = "MT19937" /\ status = SOLVED)
        => \E j \in DOMAIN random[1].mt : random[1].mt[j] # {}

\* C34: for every 32-bit word the untempering with fixed numbers of passes
\* (7 of the shift-7 step, 3 of the shift-11 step) returns the word that the
\* iterative untempering returns, which is the word whose tempering is the
\* input.
C34_FixedUntemperIsUntemper ==
    op = "untemper" => (result[1] = result[2] /\ Temper(result[1]) = arg[1])

\* Both untemperings were applied to a word they change.
C34_Witness ==
    /\ op = "untemper"
    /\ Cardinality(arg[1]) = 2
    /\ result[1] # arg[1]
    /\ result[1] = Untemper(arg[1])

\* C35: gen_rand_bits(k) returns 0 and draws no word for k <= 0; for k >= 1
\* it draws exactly ceil(k / 32) words, the i-th drawn word (from 0) lies at
\* the bit offset 32 * i, the last one shifted right so that k bits remain
\* in all (for k <= 32 the result is the one word >> (32 - k)), and the
\* result is below 2^k.
C35_GenRandBits ==
    [][(op' = "gen_rand_bits")
        => LET k == arg'[1]
               n == IF k <= 0 THEN 0 ELSE (k + 31) \div 32
               g0 == [mt |-> lists[gens[1].mt], mti |-> gens[1].mti]
               RECURSIVE After(_, _)
               After(g, i) == IF i = 0 THEN g ELSE After(GenRandUint32(g).gen, i - 1)
               word(i) == GenRandUint32(After(g0, i)).out
               expected == UNION {Shl(IF i = n - 1 THEN Shr(word(i), 32 * n - k)
                                      ELSE word(i), 32 * i) : i \in 0..(n - 1)}
           IN  /\ result' = expected
               /\ lists'[gens[1].mt] = After(g0, n).mt
               /\ gens'[1].mti = After(g0, n).mti
               /\ k >= 1 => result' \subseteq 0..(k - 1)
               /\ (k >= 1 /\ k <= 32) => result' = Shr(word(0), 32 - k)
               /\ k <= 0 => (result' = {} /\ lists' = lists /\ gens' = gens)]_vars

\* gen_rand_bits(65) returned an integer with bits of each of its three
\* words.
C35_Witness ==
    /\ op = "gen_rand_bits"
    /\ arg = <<65>>
    /\ result \cap (0..31) # {}
    /\ result \cap (32..63) # {}
    /\ 64 \in result

C37_BatchSolveFallsBackOnce ==
    (op = "solve" /\ Len(observed_values) >= 2)
        => (raised = "none" /\ calls <= 2)

\* C38: add_value made in NOT_SOLVABLE raises NotSolvableError and leaves
\* the status, the candidate state, the recovered words and generator and
\* the refill counter as they were; the MT solver keeps no observation
\* buffer, and the V8 solver has appended the value to its own before it
\* raises.
C38_AddValueInNotSolvableKeepsAllButBuffer ==
    [][(status = NOT_SOLVABLE /\ op' = "add_value")
          => (/\ raised' = NotSolvableError
              /\ UNCHANGED <<status, state, random, s0_val, s1_val,
                             cache_refill_counter, solver, sym_rot>>
              /\ observed_values' =
                    IF kind \in V8Kinds
                    THEN Append(observed_values, delivered')
                    ELSE observed_values)]_vars

\* C38 as stated: the call changes nothing in the solver, the observation
\* buffer included.
C38_AddValueInNotSolvableChangesNothing ==
    [][(status = NOT_SOLVABLE /\ op' = "add_value")
          => (/\ raised' = NotSolvableError
              /\ UNCHANGED <<status, state, random, observed_values,
                             s0_val, s1_val, cache_refill_counter>>)]_vars

\* A V8 solver whose first value, 0.0, matched the fresh candidate, whose
\* second value (the one call made in a solved status) failed it, and
\* whose third value was added in NOT_SOLVABLE.
C38_Witness ==
    /\ kind \in V8Kinds /\ status = NOT_SOLVABLE
    /\ op = "add_value" /\ raised = NotSolvableError
    /\ Len(observed_values) = 3
    /\ observed_values[1] = {}
    /\ solved_calls = 1

====
